---- MODULE Spec2Model ----
(***************************************************************************)
(* Model of the Dropbox client of src/index.js (first copy, lines 1-851):  *)
(* the request executors (request, downloadRequest, uploadRequest), their  *)
(* error normalisation, and the document / shared-link operations built on *)
(* them.  The authenticated transport (authenticatedFetch) is the          *)
(* environment: every response it can hand back is drawn from Responses.   *)
(***************************************************************************)
EXTENDS Naturals, Sequences, FiniteSets

VARIABLES
  pc,      \* position of the running client operation
  op,      \* the operation and its arguments
  calls,   \* requests handed to authenticatedRequest, in order
  resps,   \* what the transport answered to each of them, in order
  outs,    \* what the executor made of each answer, in order
  loc,     \* locals of createPaperDoc's fallback (result, tempPath)
  out,     \* what the operation returned or threw
  runs,    \* command invocations completed so far
  remote,  \* the shared links the remote holds for each path, in API order
  inv,     \* the command invocations that run getSharedLink side by side
  docs,    \* the Paper documents the remote stores, and the last one created
  proc,    \* the process running main: its command line and its exit code
  twin     \* the same operation running in the simplified copy of the module

client == <<pc, op, calls, resps, outs, loc, out, runs>>

vars == <<pc, op, calls, resps, outs, loc, out, runs, remote, inv, docs, proc, twin>>

\* Number of command invocations explored one after the other.
MaxRuns == 2

\* Number of command invocations running getSharedLink side by side.
MaxInvocations == 2

(***************************************************************************)
(* JavaScript values as far as the client looks at them.                   *)
(***************************************************************************)
Undef == [t |-> "undefined"]
JNull == [t |-> "null"]
JTrue == [t |-> "boolean", b |-> TRUE]
JFalse == [t |-> "boolean", b |-> FALSE]
JStr(s) == [t |-> "string", s |-> s]
JNum(n) == [t |-> "number", n |-> n]
JObj(o) == [t |-> "object", o |-> o]
JArr(a) == [t |-> "array", a |-> a]

NoFields == [k \in {} |-> Undef]

\* ToBoolean: what `!x`, `x || y` and `x && y` test.
Truthy(v) ==
  CASE v.t = "undefined" -> FALSE
    [] v.t = "null" -> FALSE
    [] v.t = "boolean" -> v.b
    [] v.t = "string" -> v.s # ""
    [] v.t = "number" -> v.n # 0
    [] OTHER -> TRUE

\* a || b
Or(a, b) == IF Truthy(a) THEN a ELSE b

\* v === null || v === undefined: a property read on it throws a TypeError.
Nullish(v) == v.t \in {"undefined", "null"}

\* v[k] for a v that is not nullish (own data properties only).
Get(v, k) ==
  IF v.t = "object" /\ k \in DOMAIN v.o THEN v.o[k] ELSE Undef

\* v[k] = x in sloppy mode: sets the property on an object, is dropped on a
\* primitive.
Set(v, k, x) ==
  IF v.t = "object"
    THEN JObj([kk \in (DOMAIN v.o) \cup {k} |-> IF kk = k THEN x ELSE v.o[kk]])
    ELSE v

\* String(v), as new Error(v) applies it to its argument.  The operands of the
\* message chains are strings for every body in Texts; numbers and arrays
\* never reach it.
JSString(v) ==
  CASE v.t = "string" -> v.s
    [] v.t = "null" -> "null"
    [] v.t = "undefined" -> ""
    [] v.t = "boolean" -> IF v.b THEN "true" ELSE "false"
    [] OTHER -> "[object Object]"

\* The loop of safeGet over parts[i ..]: current is the value reached so far.
RECURSIVE safeGetFrom(_, _, _, _)
safeGetFrom(current, parts, i, defaultVal) ==
  IF i > Len(parts)
    THEN (IF current.t # "undefined" THEN current ELSE defaultVal)
    ELSE IF Nullish(current)
      THEN defaultVal
      ELSE safeGetFrom(Get(current, parts[i]), parts, i + 1, defaultVal)

\* safeGet(obj, path, defaultVal); parts is path.split('.').
safeGet(obj, parts, defaultVal) ==
  IF ~Truthy(obj) THEN defaultVal ELSE safeGetFrom(obj, parts, 1, defaultVal)

(***************************************************************************)
(* Paths.  split('/') over the paths the model uses.                       *)
(***************************************************************************)
NestedPath == "/Shared/doc.paper"
RootPath == "/doc.paper"
BarePath == "doc.paper"
EmptyPath == ""

Paths == {NestedPath, RootPath, BarePath, EmptyPath}

\* docPath.split('/')
SplitSlash(p) ==
  CASE p = NestedPath -> <<"", "Shared", "doc.paper">>
    [] p = RootPath -> <<"", "doc.paper">>
    [] p = BarePath -> <<"doc.paper">>
    [] p = EmptyPath -> <<"">>

\* '/' + parts[parts.length - 1]
TempPathOf(docPath) ==
  LET parts == SplitSlash(docPath)
      filename == parts[Len(parts)]
  IN "/" \o filename

(***************************************************************************)
(* Response bodies: the literal text the transport returns, and what       *)
(* JSON.parse makes of it.                                                 *)
(***************************************************************************)
TxtEmpty == ""
TxtPlain == "Service Unavailable"
TxtNull == "null"
TxtNumber == "42"
TxtEmptyObj == "{}"
TxtAll == "{\"error_summary\":\"S\",\"error_description\":\"D\",\"error\":{\"message\":\"M\"}}"
TxtSummary == "{\"error_summary\":\"S\"}"
TxtDescNested == "{\"error_description\":\"D\",\"error\":{\"message\":\"M\"}}"
TxtNested == "{\"error\":{\"message\":\"M\"}}"
TxtBlank == "{\"error_summary\":\"\",\"error_description\":\"\",\"error\":{\"message\":\"\"}}"
TxtOAuth == "{\"error\":\"invalid_grant\",\"error_description\":\"D\"}"
TxtBadExt == "{\"error_summary\":\"invalid_file_extension/\",\"error\":{\".tag\":\"invalid_file_extension\"}}"
TxtLinkExists == "{\"error_summary\":\"shared_link_already_exists/\",\"error\":{\".tag\":\"shared_link_already_exists\",\"shared_link_already_exists\":{\".tag\":\"metadata\",\"metadata\":{\"url\":\"https://db.tt/a\"}}}}"
TxtLinkExistsBare == "{\"error_summary\":\"shared_link_already_exists/\",\"error\":{\".tag\":\"shared_link_already_exists\"}}"
TxtResultNested == "{\"result_path\":\"/Shared/doc.paper\"}"
TxtResultRoot == "{\"result_path\":\"/doc.paper\"}"
TxtMovedNested == "{\"metadata\":{\"path_display\":\"/Shared/doc.paper\"}}"
TxtMovedRoot == "{\"metadata\":{\"path_display\":\"/doc.paper\"}}"
TxtNoLinks == "{\"links\":[]}"
TxtLinks == "{\"links\":[{\"url\":\"https://db.tt/a\"},{\"url\":\"https://db.tt/b\"}]}"
TxtNewLink == "{\"url\":\"https://db.tt/c\"}"
TxtMore == "{\"entries\":[],\"matches\":[],\"has_more\":true,\"cursor\":\"cursor-1\"}"

LinkA == JObj([url |-> JStr("https://db.tt/a")])
LinkB == JObj([url |-> JStr("https://db.tt/b")])
LinkC == JObj([url |-> JStr("https://db.tt/c")])

\* The links of the remote that keeps them: for each path the one it may hold
\* from the start and the one a creation call makes, with the bodies the
\* remote sends about them.
LinkPaths == {NestedPath, RootPath}
LinkAges == {"old", "new"}
RemoteLinks == [path : LinkPaths, age : LinkAges]
LinkUrl(l) == "https://db.tt" \o l.path \o "?" \o l.age
LinkValue(l) == JObj([url |-> JStr(LinkUrl(l))])
TxtLink(l) == "{\"url\":\"" \o LinkUrl(l) \o "\"}"
TxtListing(l) == "{\"links\":[" \o TxtLink(l) \o "]}"
TxtRefused(l) ==
  "{\"error_summary\":\"shared_link_already_exists/metadata/\",\"error\":{\".tag\":\"shared_link_already_exists\",\"shared_link_already_exists\":{\".tag\":\"metadata\",\"metadata\":"
    \o TxtLink(l) \o "}}}"

Texts ==
  { TxtEmpty, TxtPlain, TxtNull, TxtNumber, TxtEmptyObj, TxtAll, TxtSummary,
    TxtDescNested, TxtNested, TxtBlank, TxtOAuth, TxtBadExt, TxtLinkExists,
    TxtLinkExistsBare, TxtResultNested, TxtResultRoot, TxtMovedNested,
    TxtMovedRoot, TxtNoLinks, TxtLinks, TxtNewLink, TxtMore }

Parsed(v) == [ok |-> TRUE, v |-> v]
SyntaxError == [ok |-> FALSE]

\* JSON.parse(text): the value, or SyntaxError when it throws.
JSONParse(text) ==
  CASE text = TxtEmpty -> SyntaxError
    [] text = TxtPlain -> SyntaxError
    [] text = TxtNull -> Parsed(JNull)
    [] text = TxtNumber -> Parsed(JNum(42))
    [] text = TxtEmptyObj -> Parsed(JObj(NoFields))
    [] text = TxtAll ->
         Parsed(JObj([error_summary |-> JStr("S"), error_description |-> JStr("D"),
                      error |-> JObj([message |-> JStr("M")])]))
    [] text = TxtSummary -> Parsed(JObj([error_summary |-> JStr("S")]))
    [] text = TxtDescNested ->
         Parsed(JObj([error_description |-> JStr("D"),
                      error |-> JObj([message |-> JStr("M")])]))
    [] text = TxtNested -> Parsed(JObj([error |-> JObj([message |-> JStr("M")])]))
    [] text = TxtBlank ->
         Parsed(JObj([error_summary |-> JStr(""), error_description |-> JStr(""),
                      error |-> JObj([message |-> JStr("")])]))
    [] text = TxtOAuth ->
         Parsed(JObj([error |-> JStr("invalid_grant"), error_description |-> JStr("D")]))
    [] text = TxtBadExt ->
         Parsed(JObj([error_summary |-> JStr("invalid_file_extension/"),
                      error |-> JObj([k \in {".tag"} |-> JStr("invalid_file_extension")])]))
    [] text = TxtLinkExists ->
         Parsed(JObj([error_summary |-> JStr("shared_link_already_exists/"),
                      error |-> JObj([k \in {".tag", "shared_link_already_exists"} |->
                        IF k = ".tag" THEN JStr("shared_link_already_exists")
                        ELSE JObj([kk \in {".tag", "metadata"} |->
                               IF kk = ".tag" THEN JStr("metadata") ELSE LinkA])])]))
    [] text = TxtLinkExistsBare ->
         Parsed(JObj([error_summary |-> JStr("shared_link_already_exists/"),
                      error |-> JObj([k \in {".tag"} |-> JStr("shared_link_already_exists")])]))
    [] text = TxtResultNested -> Parsed(JObj([result_path |-> JStr(NestedPath)]))
    [] text = TxtResultRoot -> Parsed(JObj([result_path |-> JStr(RootPath)]))
    [] text = TxtMovedNested ->
         Parsed(JObj([metadata |-> JObj([path_display |-> JStr(NestedPath)])]))
    [] text = TxtMovedRoot ->
         Parsed(JObj([metadata |-> JObj([path_display |-> JStr(RootPath)])]))
    [] text = TxtNoLinks -> Parsed(JObj([links |-> JArr(<<>>)]))
    [] text = TxtLinks -> Parsed(JObj([links |-> JArr(<<LinkA, LinkB>>)]))
    [] text = TxtNewLink -> Parsed(LinkC)
    [] text = TxtMore ->
         Parsed(JObj([entries |-> JArr(<<>>), matches |-> JArr(<<>>),
                      has_more |-> JTrue, cursor |-> JStr("cursor-1")]))
    [] \E l \in RemoteLinks : text = TxtLink(l) ->
         Parsed(LinkValue(CHOOSE l \in RemoteLinks : text = TxtLink(l)))
    [] \E l \in RemoteLinks : text = TxtListing(l) ->
         Parsed(JObj([links |->
           JArr(<<LinkValue(CHOOSE l \in RemoteLinks : text = TxtListing(l))>>)]))
    [] \E l \in RemoteLinks : text = TxtRefused(l) ->
         Parsed(JObj([error_summary |-> JStr("shared_link_already_exists/metadata/"),
                      error |-> JObj([k \in {".tag", "shared_link_already_exists"} |->
                        IF k = ".tag" THEN JStr("shared_link_already_exists")
                        ELSE JObj([kk \in {".tag", "metadata"} |->
                               IF kk = ".tag" THEN JStr("metadata")
                               ELSE LinkValue(CHOOSE l \in RemoteLinks :
                                                text = TxtRefused(l))])])]))

(***************************************************************************)
(* The transport: authenticatedFetch answers with an HTTP response or      *)
(* throws before any response exists.                                      *)
(***************************************************************************)
OkStatuses == {200}
FailStatuses == {400, 409}

Responses ==
  [kind : {"http"}, ok : {TRUE}, status : OkStatuses, text : Texts]
    \cup [kind : {"http"}, ok : {FALSE}, status : FailStatuses, text : Texts]
    \cup {[kind |-> "threw"]}

(***************************************************************************)
(* Errors and results.                                                     *)
(***************************************************************************)
Ret(v) == [k |-> "return", v |-> v]
Thr(e) == [k |-> "throw", e |-> e]
None == [k |-> "none"]

\* new Error(msg) with err.status and err.data set.
ApiError(msg, status, data) ==
  [name |-> "Error", message |-> msg, status |-> JNum(status), data |-> data]

\* An error the engine or the transport throws: no status, no data.
PlainError(name, msg) ==
  [name |-> name, message |-> msg, status |-> Undef, data |-> Undef]

NullReadError == PlainError("TypeError", "cannot read a property of null or undefined")
NotAFunctionError == PlainError("TypeError", "this.getFileInfo is not a function")
ParseError == PlainError("SyntaxError", "JSON.parse: unexpected character")
TransportError == PlainError("TransportError", "request failed or timed out")

\* The error as the object safeGet walks in getSharedLink.
ErrorObject(e) ==
  JObj([message |-> JStr(e.message), status |-> e.status, data |-> e.data])

\* try { data = JSON.parse(text) } catch (e) { data = { error: text } }
ErrorData(text) ==
  LET p == JSONParse(text)
  IN IF p.ok THEN p.v ELSE JObj([error |-> JStr(text)])

(***************************************************************************)
(* The three executors.  xxxOptions is the request handed to the           *)
(* transport, xxxRequest is what the executor makes of the answer.         *)
(***************************************************************************)
timeout == 30000

\* requestOptions that hands the transport a request without a time limit.
requestOptions_NoTimeout(endpoint, body) ==
  [site |-> "request", endpoint |-> endpoint, method |-> "POST",
   timeout |-> 0, arg |-> body, content |-> Undef]

requestOptions(endpoint, body) ==
  [site |-> "request", endpoint |-> endpoint, method |-> "POST",
   timeout |-> timeout, arg |-> body, content |-> Undef]

downloadOptions(endpoint, apiArg) ==
  [site |-> "download", endpoint |-> endpoint, method |-> "POST",
   timeout |-> timeout, arg |-> apiArg, content |-> Undef]

uploadOptions(endpoint, apiArg, content) ==
  [site |-> "upload", endpoint |-> endpoint, method |-> "POST",
   timeout |-> timeout, arg |-> apiArg, content |-> content]

\* requestErrMsg with error_description tried before error_summary.
requestErrMsg_DescriptionFirst(data, text) ==
  JSString(Or(Or(Or(Or(Get(data, "error_description"), Get(data, "error_summary")),
                    safeGet(data, <<"error", "message">>, JNull)),
                 JStr(text)),
              JStr("API request failed")))

requestErrMsg(data, text) ==
  JSString(Or(Or(Or(Or(Get(data, "error_summary"), Get(data, "error_description")),
                    safeGet(data, <<"error", "message">>, JNull)),
                 JStr(text)),
              JStr("API request failed")))

downloadErrMsg(data, text) ==
  JSString(Or(Get(data, "error_summary"), JStr("Download failed")))

\* uploadErrMsg without its final literal.
uploadErrMsg_NoFallback(data, text) ==
  JSString(Or(Or(Get(data, "error_summary"),
                 safeGet(data, <<"error", "message">>, JNull)),
              JStr(text)))

uploadErrMsg(data, text) ==
  JSString(Or(Or(Or(Get(data, "error_summary"),
                    safeGet(data, <<"error", "message">>, JNull)),
                 JStr(text)),
              JStr("Upload failed")))

request(resp) ==
  IF resp.kind = "threw" THEN Thr(TransportError)
  ELSE IF ~resp.ok
    THEN LET data == ErrorData(resp.text)
         IN IF Nullish(data) THEN Thr(NullReadError)
            ELSE Thr(ApiError(requestErrMsg(data, resp.text), resp.status, data))
    ELSE IF resp.text # ""
      THEN LET p == JSONParse(resp.text)
           IN IF p.ok THEN Ret(p.v) ELSE Thr(ParseError)
      ELSE Ret(JObj(NoFields))

\* On success the response itself is returned; the callers take its text().
downloadRequest(resp) ==
  IF resp.kind = "threw" THEN Thr(TransportError)
  ELSE IF ~resp.ok
    THEN LET data == ErrorData(resp.text)
         IN IF Nullish(data) THEN Thr(NullReadError)
            ELSE Thr(ApiError(downloadErrMsg(data, resp.text), resp.status, data))
    ELSE Ret(resp)

uploadRequest(resp) ==
  IF resp.kind = "threw" THEN Thr(TransportError)
  ELSE LET data == ErrorData(resp.text)
       IN IF ~resp.ok
            THEN IF Nullish(data) THEN Thr(NullReadError)
                 ELSE Thr(ApiError(uploadErrMsg(data, resp.text), resp.status, data))
            ELSE Ret(data)

(***************************************************************************)
(* Arguments the operations are called with.                               *)
(***************************************************************************)
PathArgs == {JStr(p) : p \in Paths} \cup {Undef}
Contents == {JStr("# Notes"), JStr("")}
Formats == {Undef, JStr("html")}
Policies == {Undef, JStr("overwrite"), JStr("update")}
Queries == {JStr("notes"), Undef}
ListOptions == {Undef, JObj([recursive |-> JTrue, limit |-> JNum(5)])}
SearchOptions == {Undef, JObj([maxResults |-> JNum(5), path |-> JStr(NestedPath)])}
Cursors == {JStr("cursor-1"), Undef}

\* The methods DropboxClient.prototype defines.
ClientMethods ==
  { "authenticatedRequest", "request", "downloadRequest", "uploadRequest",
    "getCurrentAccount", "listFolder", "listFolderContinue", "search",
    "getMetadata", "downloadFile", "listPaperDocs", "getPaperDocContent",
    "searchPaperDocs", "createPaperDoc", "updatePaperDoc", "getSharedLink" }

(***************************************************************************)
(* A step of an operation: where it goes next, the request it issues (at   *)
(* most one), its locals, and its outcome once it has ended.               *)
(***************************************************************************)
NoLoc == [tempPath |-> "", result |-> Undef]

Finish(o) == [pc |-> "done", send |-> <<>>, loc |-> NoLoc, out |-> o]
Issue(next, call, l) == [pc |-> next, send |-> <<call>>, loc |-> l, out |-> None]

(***************************************************************************)
(* Single-call operations.                                                 *)
(***************************************************************************)
getCurrentAccount == requestOptions("/users/get_current_account", JNull)

listFolder(folderPath, options) ==
  LET opts == Or(options, JObj(NoFields))
  IN requestOptions("/files/list_folder",
       JObj([path |-> Or(folderPath, JStr("")),
             recursive |-> Or(Get(opts, "recursive"), JFalse),
             include_media_info |-> Or(Get(opts, "includeMediaInfo"), JFalse),
             include_deleted |-> Or(Get(opts, "includeDeleted"), JFalse),
             include_has_explicit_shared_members |-> JFalse,
             include_mounted_folders |-> JTrue,
             limit |-> Or(Get(opts, "limit"), JNum(100))]))

listFolderContinue(cursor) ==
  requestOptions("/files/list_folder/continue", JObj([cursor |-> cursor]))

search(query, options) ==
  LET opts == Or(options, JObj(NoFields))
      base == JObj([max_results |-> Or(Get(opts, "maxResults"), JNum(20)),
                    file_status |-> JStr("active")])
      withPath == IF Truthy(Get(opts, "path"))
                    THEN Set(base, "path", Get(opts, "path")) ELSE base
      withExt == IF Truthy(Get(opts, "fileExtensions"))
                   THEN Set(withPath, "file_extensions", Get(opts, "fileExtensions"))
                   ELSE withPath
      withCat == IF Truthy(Get(opts, "fileCategories"))
                   THEN Set(withExt, "file_categories", Get(opts, "fileCategories"))
                   ELSE withExt
  IN requestOptions("/files/search_v2", JObj([query |-> query, options |-> withCat]))

getMetadata(filePath) ==
  requestOptions("/files/get_metadata",
                 JObj([path |-> filePath, include_media_info |-> JTrue]))

downloadFile(filePath) ==
  downloadOptions("/files/download", JObj([path |-> filePath]))

listPaperDocs(folderPath) ==
  search(JStr(".paper"),
         JObj([path |-> Or(folderPath, Undef), maxResults |-> JNum(100),
               fileExtensions |-> JArr(<<JStr("paper")>>)]))

getPaperDocContent(docPath, exportFormat) ==
  downloadOptions("/files/export",
                  JObj([path |-> docPath,
                        export_format |-> Or(exportFormat, JStr("markdown"))]))

searchPaperDocs(query, options) ==
  search(query, Set(Or(options, JObj(NoFields)), "fileExtensions",
                    JArr(<<JStr("paper")>>)))

\* String.prototype.trim, on the content strings of the model.
PaddedNotes == "  # Notes\n"
trim(s) == IF s = PaddedNotes THEN "# Notes" ELSE s

\* textOf stripping the white space around the body.
textOf_Trimmed(o) == IF o.k = "return" THEN Ret(JStr(trim(o.v.text))) ELSE o

\* return response.text()
textOf(o) == IF o.k = "return" THEN Ret(JStr(o.v.text)) ELSE o

(***************************************************************************)
(* createPaperDoc: create at the path; on invalid_file_extension create at *)
(* the root and move.                                                      *)
(***************************************************************************)
createPaperDocArg(docPath, importFormat) ==
  JObj([path |-> docPath, import_format |-> Or(importFormat, JStr("markdown"))])

\* isInvalidFileExtension without the comparison of the tag.
isInvalidFileExtension_AnyErrorField(err) ==
  /\ Truthy(err.data)
  /\ Truthy(Get(err.data, "error"))

\* err.data && err.data.error && err.data.error['.tag'] === 'invalid_file_extension'
isInvalidFileExtension(err) ==
  /\ Truthy(err.data)
  /\ Truthy(Get(err.data, "error"))
  /\ Get(Get(err.data, "error"), ".tag") = JStr("invalid_file_extension")

\* actualPath !== docPath
needsMove(actualPath, docPath) == actualPath # docPath

\* The first attempt.
createPaperDoc(docPath, content, importFormat) ==
  Issue("create",
        uploadOptions("/files/paper/create",
                      createPaperDocArg(docPath, importFormat), content),
        NoLoc)

\* createPaperDocCatch stamping the requested path on a direct success.
createPaperDocCatch_StampsPath(o, docPath, content, importFormat) ==
  IF o.k = "return" THEN Finish(Ret(Set(o.v, "result_path", docPath)))
  ELSE IF isInvalidFileExtension(o.e)
    THEN IF docPath.t # "string"
           THEN Finish(Thr(NullReadError))
           ELSE LET tempPath == TempPathOf(docPath.s)
                IN Issue("root",
                         uploadOptions("/files/paper/create",
                                       createPaperDocArg(JStr(tempPath), importFormat),
                                       content),
                         [tempPath |-> tempPath, result |-> Undef])
    ELSE Finish(o)

\* After the first attempt: o is what uploadRequest returned or threw.
createPaperDocCatch(o, docPath, content, importFormat) ==
  IF o.k = "return" THEN Finish(o)
  ELSE IF isInvalidFileExtension(o.e)
    THEN IF docPath.t # "string"
           THEN Finish(Thr(NullReadError))      \* docPath.split on undefined
           ELSE LET tempPath == TempPathOf(docPath.s)
                IN Issue("root",
                         uploadOptions("/files/paper/create",
                                       createPaperDocArg(JStr(tempPath), importFormat),
                                       content),
                         [tempPath |-> tempPath, result |-> Undef])
    ELSE Finish(o)

\* createPaperDocRoot moving from the temporary path whatever the create
\* reported.
createPaperDocRoot_MovesFromTemp(o, docPath, l) ==
  IF o.k = "throw" THEN Finish(o)
  ELSE IF Nullish(o.v) THEN Finish(Thr(NullReadError))
  ELSE IF needsMove(Or(Get(o.v, "result_path"), JStr(l.tempPath)), docPath)
    THEN Issue("move",
               requestOptions("/files/move_v2",
                 JObj([from_path |-> JStr(l.tempPath), to_path |-> docPath,
                       allow_shared_folder |-> JTrue, autorename |-> JFalse])),
               [tempPath |-> l.tempPath, result |-> o.v])
    ELSE Finish(Ret(o.v))

\* After the create at the root: o is what uploadRequest returned or threw.
createPaperDocRoot(o, docPath, l) ==
  IF o.k = "throw" THEN Finish(o)
  ELSE IF Nullish(o.v) THEN Finish(Thr(NullReadError))   \* result.result_path
  ELSE LET actualPath == Or(Get(o.v, "result_path"), JStr(l.tempPath))
       IN IF needsMove(actualPath, docPath)
            THEN Issue("move",
                       requestOptions("/files/move_v2",
                         JObj([from_path |-> actualPath, to_path |-> docPath,
                               allow_shared_folder |-> JTrue, autorename |-> JFalse])),
                       [tempPath |-> l.tempPath, result |-> o.v])
            ELSE Finish(Ret(o.v))

\* createPaperDocMoved forgetting line 340: the creation result is returned
\* with the path the root-level create reported.
createPaperDocMoved_KeepsTempPath(o, docPath, l) ==
  IF o.k = "throw" THEN Finish(o)
  ELSE IF Nullish(o.v) \/ Nullish(Get(o.v, "metadata"))
    THEN Finish(Thr(NullReadError))
    ELSE Finish(Ret(l.result))

\* createPaperDocMoved retrying the move when the transport failed.
createPaperDocMoved_RetriesMove(o, docPath, l) ==
  IF o.k = "throw" /\ o.e = TransportError
    THEN Issue("move",
               requestOptions("/files/move_v2",
                 JObj([from_path |-> Or(Get(l.result, "result_path"), JStr(l.tempPath)),
                       to_path |-> docPath,
                       allow_shared_folder |-> JTrue, autorename |-> JFalse])),
               l)
  ELSE IF o.k = "throw" THEN Finish(o)
  ELSE IF Nullish(o.v) \/ Nullish(Get(o.v, "metadata"))
    THEN Finish(Thr(NullReadError))
    ELSE Finish(Ret(Set(l.result, "result_path",
                        Get(Get(o.v, "metadata"), "path_display"))))

\* createPaperDocMoved deleting the root-level document when the move failed.
createPaperDocMoved_CleansUp(o, docPath, l) ==
  IF o.k = "throw"
    THEN Issue("cleanup",
               requestOptions("/files/delete_v2", JObj([path |-> JStr(l.tempPath)])),
               l)
  ELSE IF Nullish(o.v) \/ Nullish(Get(o.v, "metadata"))
    THEN Finish(Thr(NullReadError))
    ELSE Finish(Ret(Set(l.result, "result_path",
                        Get(Get(o.v, "metadata"), "path_display"))))

\* After the move: o is what request returned or threw.
createPaperDocMoved(o, docPath, l) ==
  IF o.k = "throw" THEN Finish(o)
  ELSE IF Nullish(o.v) \/ Nullish(Get(o.v, "metadata"))
    THEN Finish(Thr(NullReadError))             \* moveResult.metadata.path_display
    ELSE Finish(Ret(Set(l.result, "result_path",
                        Get(Get(o.v, "metadata"), "path_display"))))

(***************************************************************************)
(* updatePaperDoc.                                                         *)
(***************************************************************************)
updatePaperDoc(docPath, content, importFormat, updatePolicy) ==
  LET apiArg == JObj([path |-> docPath,
                      import_format |-> Or(importFormat, JStr("markdown")),
                      doc_update_policy |-> Or(updatePolicy, JStr("overwrite"))])
  IN IF updatePolicy = JStr("update") /\ "getFileInfo" \notin ClientMethods
       THEN Finish(Thr(NotAFunctionError))      \* this.getFileInfo(docPath)
       ELSE Issue("update", uploadOptions("/files/paper/update", apiArg, content), NoLoc)

(***************************************************************************)
(* getSharedLink: list, else create; the catch covers both calls.          *)
(***************************************************************************)
getSharedLink(filePath) ==
  Issue("list",
        requestOptions("/sharing/list_shared_links",
                       JObj([path |-> filePath, direct_only |-> JTrue])),
        NoLoc)

\* getSharedLinkCatch that re-raises whatever the payload embeds.
getSharedLinkCatch_Rethrows(o) == Finish(o)

getSharedLinkCatch(o) ==
  LET sharedLink ==
        safeGet(ErrorObject(o.e),
                <<"data", "error", "shared_link_already_exists", "metadata">>, JNull)
  IN IF Truthy(sharedLink) THEN Finish(Ret(sharedLink)) ELSE Finish(o)

\* hasLinks that takes every listing for an empty one.
hasLinks_Never(existing) == FALSE

\* existing.links && existing.links.length > 0 (links is an array when present)
hasLinks(existing) ==
  LET links == Get(existing, "links")
  IN Truthy(links) /\ links.t = "array" /\ Len(links.a) > 0

\* getSharedLinkListed that creates a link without looking at the listing.
getSharedLinkListed_CreatesAnyway(o, filePath) ==
  IF o.k = "throw" THEN getSharedLinkCatch(o)
  ELSE Issue("link",
             requestOptions("/sharing/create_shared_link_with_settings",
               JObj([path |-> filePath,
                     settings |-> JObj([requested_visibility |-> JStr("public")])])),
             NoLoc)

\* After the listing: o is what request returned or threw.
getSharedLinkListed(o, filePath) ==
  IF o.k = "throw" THEN getSharedLinkCatch(o)
  ELSE IF Nullish(o.v) THEN getSharedLinkCatch(Thr(NullReadError))  \* existing.links
  ELSE IF hasLinks(o.v) THEN Finish(Ret(Get(o.v, "links").a[1]))
  ELSE Issue("link",
             requestOptions("/sharing/create_shared_link_with_settings",
               JObj([path |-> filePath,
                     settings |-> JObj([requested_visibility |-> JStr("public")])])),
             NoLoc)

\* getSharedLinkCreated with the creation call outside the try block.
getSharedLinkCreated_NoCatch(o) == Finish(o)

\* After the creation call: o is what request returned or threw.
getSharedLinkCreated(o) ==
  IF o.k = "throw" THEN getSharedLinkCatch(o) ELSE Finish(o)

(***************************************************************************)
(* The state machine: one command invocation runs one client operation;    *)
(* each action runs it up to its next call to the transport.               *)
(***************************************************************************)
NoOp == [name |-> "none"]

Invocations == 1..MaxInvocations

\* An invocation that has not started: its position in getSharedLink, its
\* path, the requests it issued, its outcome, and what it found at its start
\* (the invocations that had ended, the links the remote held for its path).
NotStarted ==
  [pc |-> "idle", path |-> Undef, calls |-> <<>>, out |-> None,
   after |-> {}, found |-> <<>>]

NoLinks == [p \in LinkPaths |-> <<>>]

\* The paths the remote stores documents at; none is stored, none was made.
DocPaths == {NestedPath, RootPath}
NoDocs ==
  [at |-> [p \in DocPaths |-> Undef],
   made |-> [path |-> Undef, content |-> Undef, calls |-> <<>>, out |-> None]]

\* main has not been entered.
NoProcess == [state |-> "none"]

\* The simplified copy runs nothing.
NoTwin == [pc |-> "idle", calls |-> <<>>, out |-> None]

Init ==
  /\ pc = "idle"
  /\ op = NoOp
  /\ calls = <<>>
  /\ resps = <<>>
  /\ outs = <<>>
  /\ loc = NoLoc
  /\ out = None
  /\ runs = 0
  /\ remote = NoLinks
  /\ inv = [i \in Invocations |-> NotStarted]
  /\ docs = NoDocs
  /\ proc = NoProcess
  /\ twin = NoTwin

\* The running operation goes on to its next call or to its end.
Advance(step) ==
  /\ pc' = step.pc
  /\ calls' = calls \o step.send
  /\ loc' = step.loc
  /\ out' = step.out

Apply(step) ==
  /\ Advance(step)
  /\ UNCHANGED <<remote, inv, docs, proc, twin>>

Idle == pc = "idle" /\ runs < MaxRuns

Begin(o, step) ==
  /\ op' = o
  /\ Apply(step)
  /\ UNCHANGED <<resps, outs, runs>>

Answered(r, o, step) ==
  /\ resps' = Append(resps, r)
  /\ outs' = Append(outs, o)
  /\ Apply(step)
  /\ UNCHANGED <<op, runs>>

CallCreatePaperDoc ==
  /\ Idle
  /\ \E docPath \in PathArgs, content \in Contents, importFormat \in Formats :
    Begin([name |-> "createPaperDoc", path |-> docPath, content |-> content,
           format |-> importFormat],
          createPaperDoc(docPath, content, importFormat))

CreateAnswered ==
  /\ pc = "create"
  /\ \E r \in Responses :
       LET o == uploadRequest(r)
       IN Answered(r, o, createPaperDocCatch(o, op.path, op.content, op.format))

RootCreateAnswered ==
  /\ pc = "root"
  /\ \E r \in Responses :
       LET o == uploadRequest(r)
       IN Answered(r, o, createPaperDocRoot(o, op.path, loc))

MoveAnswered ==
  /\ pc = "move"
  /\ \E r \in Responses :
       LET o == request(r)
       IN Answered(r, o, createPaperDocMoved(o, op.path, loc))

CallUpdatePaperDoc ==
  /\ Idle
  /\ \E docPath \in PathArgs, content \in Contents, importFormat \in Formats,
        updatePolicy \in Policies :
    Begin([name |-> "updatePaperDoc", path |-> docPath, content |-> content,
           format |-> importFormat, policy |-> updatePolicy],
          updatePaperDoc(docPath, content, importFormat, updatePolicy))

UpdateAnswered ==
  /\ pc = "update"
  /\ \E r \in Responses :
       LET o == uploadRequest(r) IN Answered(r, o, Finish(o))

CallGetSharedLink ==
  /\ Idle
  /\ \E filePath \in PathArgs :
    Begin([name |-> "getSharedLink", path |-> filePath], getSharedLink(filePath))

ListAnswered ==
  /\ pc = "list"
  /\ \E r \in Responses :
       LET o == request(r) IN Answered(r, o, getSharedLinkListed(o, op.path))

LinkAnswered ==
  /\ pc = "link"
  /\ \E r \in Responses :
       LET o == request(r) IN Answered(r, o, getSharedLinkCreated(o))

\* The operations that are one RPC call.
CallGetCurrentAccount ==
  /\ Idle
  /\ Begin([name |-> "getCurrentAccount"], Issue("rpc", getCurrentAccount, NoLoc))

CallListFolder ==
  /\ Idle
  /\ \E folderPath \in PathArgs, options \in ListOptions :
       Begin([name |-> "listFolder", path |-> folderPath],
             Issue("rpc", listFolder(folderPath, options), NoLoc))

CallListFolderContinue ==
  /\ Idle
  /\ \E cursor \in Cursors :
       Begin([name |-> "listFolderContinue", cursor |-> cursor],
             Issue("rpc", listFolderContinue(cursor), NoLoc))

CallSearch ==
  /\ Idle
  /\ \E query \in Queries, options \in SearchOptions :
       Begin([name |-> "search", query |-> query],
             Issue("rpc", search(query, options), NoLoc))

CallGetMetadata ==
  /\ Idle
  /\ \E filePath \in PathArgs :
       Begin([name |-> "getMetadata", path |-> filePath],
             Issue("rpc", getMetadata(filePath), NoLoc))

CallListPaperDocs ==
  /\ Idle
  /\ \E folderPath \in PathArgs :
       Begin([name |-> "listPaperDocs", path |-> folderPath],
             Issue("rpc", listPaperDocs(folderPath), NoLoc))

CallSearchPaperDocs ==
  /\ Idle
  /\ \E query \in Queries, options \in SearchOptions :
       Begin([name |-> "searchPaperDocs", query |-> query],
             Issue("rpc", searchPaperDocs(query, options), NoLoc))

RpcAnswered ==
  /\ pc = "rpc"
  /\ \E r \in Responses :
       LET o == request(r) IN Answered(r, o, Finish(o))

\* The operations that are one download call.
CallDownloadFile ==
  /\ Idle
  /\ \E filePath \in PathArgs :
       Begin([name |-> "downloadFile", path |-> filePath],
             Issue("download", downloadFile(filePath), NoLoc))

CallGetPaperDocContent ==
  /\ Idle
  /\ \E docPath \in PathArgs, exportFormat \in Formats :
       Begin([name |-> "getPaperDocContent", path |-> docPath],
             Issue("download", getPaperDocContent(docPath, exportFormat), NoLoc))

DownloadAnswered ==
  /\ pc = "download"
  /\ \E r \in Responses :
       LET o == downloadRequest(r) IN Answered(r, o, Finish(textOf(o)))

\* The invocation ends; the next one starts with a fresh client.
Exit ==
  /\ pc = "done"
  /\ pc' = "idle"
  /\ op' = NoOp
  /\ calls' = <<>>
  /\ resps' = <<>>
  /\ outs' = <<>>
  /\ loc' = NoLoc
  /\ out' = None
  /\ runs' = runs + 1
  /\ UNCHANGED <<remote, inv, docs, proc, twin>>

Next ==
  \/ CallCreatePaperDoc
  \/ CreateAnswered
  \/ RootCreateAnswered
  \/ MoveAnswered
  \/ CallUpdatePaperDoc
  \/ UpdateAnswered
  \/ CallGetSharedLink
  \/ ListAnswered
  \/ LinkAnswered
  \/ CallGetCurrentAccount
  \/ CallListFolder
  \/ CallListFolderContinue
  \/ CallSearch
  \/ CallGetMetadata
  \/ CallListPaperDocs
  \/ CallSearchPaperDocs
  \/ RpcAnswered
  \/ CallDownloadFile
  \/ CallGetPaperDocContent
  \/ DownloadAnswered
  \/ Exit

Spec == Init /\ [][Next]_vars

(***************************************************************************)
(* Vocabulary of the properties.                                           *)
(***************************************************************************)
HttpOk(r) == r.kind = "http" /\ r.ok
HttpFail(r) == r.kind = "http" /\ ~r.ok

\* The body of r is JSON whose error carries the discriminator tag.
CarriesTag(r, tag) ==
  /\ HttpFail(r)
  /\ JSONParse(r.text).ok
  /\ Get(Get(JSONParse(r.text).v, "error"), ".tag") = JStr(tag)

IsCreate == op.name = "createPaperDoc"

\* '/' + last segment of p
RootLevelPath(p) == "/" \o SplitSlash(p)[Len(SplitSlash(p))]

CreateCall(p) ==
  [site |-> "upload", endpoint |-> "/files/paper/create", method |-> "POST",
   timeout |-> 30000,
   arg |-> JObj([path |-> p,
                 import_format |-> IF op.format = Undef THEN JStr("markdown")
                                   ELSE op.format]),
   content |-> op.content]

MoveCall(from, to) ==
  [site |-> "request", endpoint |-> "/files/move_v2", method |-> "POST",
   timeout |-> 30000,
   arg |-> JObj([from_path |-> from, to_path |-> to,
                 allow_shared_folder |-> JTrue, autorename |-> JFalse]),
   content |-> Undef]

\* createPaperDoc has ended after a first attempt refused with
\* invalid_file_extension, and every later call got a success status.
FallbackRan ==
  /\ pc = "done"
  /\ IsCreate
  /\ op.path.t = "string"
  /\ Len(resps) >= 2
  /\ CarriesTag(resps[1], "invalid_file_extension")
  /\ \A i \in 2..Len(resps) : HttpOk(resps[i])

\* The path the root-level create reported, the temporary path when none.
ReportedByRootCreate ==
  IF Truthy(Get(outs[2].v, "result_path"))
    THEN Get(outs[2].v, "result_path")
    ELSE JStr(RootLevelPath(op.path.s))

\* The destination the move response reports.
ReportedByMove == Get(Get(outs[3].v, "metadata"), "path_display")

(***************************************************************************)
(* C1 (as stated): for every requested path P, when the first create       *)
(* attempt fails with invalid_file_extension and the later calls succeed   *)
(* as the API documents them (the root-level create reports the path it    *)
(* was asked for or none, the move reports the destination P), exactly two *)
(* further calls are issued, a create at '/'+last segment of P and then a  *)
(* move to P, and the returned result_path is P.                           *)
(***************************************************************************)
C1_TwoFurtherCallsForEveryPath ==
  ( /\ FallbackRan
    /\ JSONParse(resps[2].text).ok
    /\ outs[2].v.t = "object"
    /\ ReportedByRootCreate = JStr(RootLevelPath(op.path.s))
    /\ Len(resps) >= 3 => ReportedByMove = op.path )
  =>
  /\ Len(calls) = 3
  /\ calls[2] = CreateCall(JStr(RootLevelPath(op.path.s)))
  /\ calls[3] = MoveCall(JStr(RootLevelPath(op.path.s)), op.path)
  /\ out.k = "return"
  /\ Get(out.v, "result_path") = op.path

(***************************************************************************)
(* C1 (amended): in that case a create at '/'+last segment of P is issued; *)
(* when the path it reports (the temporary path when it reports none)      *)
(* differs from P, exactly one more call follows, a move from that path to *)
(* P with allow_shared_folder true and autorename false, and the returned  *)
(* result_path is the destination the move response reports; when it       *)
(* equals P no move is issued and the root-level creation result is        *)
(* returned as it is.                                                      *)
(***************************************************************************)
C1_FallbackMovesUnlessInPlace ==
  ( /\ FallbackRan
    /\ outs[2].v.t = "object"
    /\ Len(resps) >= 3 =>
         (outs[3].k = "return" /\ ~Nullish(outs[3].v)
            /\ ~Nullish(Get(outs[3].v, "metadata"))) )
  =>
  /\ calls[2] = CreateCall(JStr(RootLevelPath(op.path.s)))
  /\ ReportedByRootCreate # op.path =>
       /\ Len(calls) = 3
       /\ calls[3] = MoveCall(ReportedByRootCreate, op.path)
       /\ out.k = "return"
       /\ Get(out.v, "result_path") = ReportedByMove
       /\ \A k \in DOMAIN outs[2].v.o \ {"result_path"} :
            Get(out.v, k) = Get(outs[2].v, k)
  /\ ReportedByRootCreate = op.path =>
       /\ Len(calls) = 2
       /\ out = Ret(outs[2].v)

\* The fallback moved the document and the result names the requested path.
C1_Witness ==
  /\ FallbackRan
  /\ op.path = JStr(NestedPath)
  /\ Len(calls) = 3
  /\ calls[3] = MoveCall(JStr(RootPath), JStr(NestedPath))
  /\ out.k = "return"
  /\ Get(out.v, "result_path") = JStr(NestedPath)

(***************************************************************************)
(* C2: when the first create attempt succeeds, createPaperDoc has issued   *)
(* exactly one call, the create at the requested path (no root-level       *)
(* create, no move), and returns the creation response unchanged, so the   *)
(* path it carries is the one the response reports for the requested path. *)
(***************************************************************************)
C2_DirectSuccessIsOneCall ==
  (IsCreate /\ Len(resps) >= 1 /\ HttpOk(resps[1]))
  =>
  /\ pc = "done"
  /\ calls = <<CreateCall(op.path)>>
  /\ out.k = "return"
  /\ JSONParse(resps[1].text).ok => out.v = JSONParse(resps[1].text).v

C2_Witness ==
  /\ pc = "done"
  /\ IsCreate
  /\ op.path = JStr(NestedPath)
  /\ resps = <<[kind |-> "http", ok |-> TRUE, status |-> 200, text |-> TxtResultNested]>>
  /\ Get(out.v, "result_path") = op.path

(***************************************************************************)
(* C3: a failure of the first create attempt whose payload does not carry  *)
(* invalid_file_extension (another tag, an unparseable body, a transport   *)
(* failure) is re-raised as it is with no further call; a failure of the   *)
(* root-level create or of the move is raised as it is, with no further    *)
(* call either.                                                            *)
(***************************************************************************)
C3_OtherFailuresPropagate ==
  IsCreate =>
    /\ ( /\ Len(outs) >= 1
         /\ outs[1].k = "throw"
         /\ ~CarriesTag(resps[1], "invalid_file_extension") )
       => (pc = "done" /\ Len(calls) = 1 /\ out = outs[1])
    /\ \A i \in 2..Len(outs) :
         outs[i].k = "throw" => (pc = "done" /\ Len(calls) = i /\ out = outs[i])

\* The move failed after the root-level create: its error is the outcome.
C3_Witness ==
  /\ pc = "done"
  /\ IsCreate
  /\ Len(outs) = 3
  /\ ~CarriesTag(resps[3], "invalid_file_extension")
  /\ outs[3].k = "throw"
  /\ out = outs[3]

(***************************************************************************)
(* C4: updatePaperDoc with policy 'update' still issues the upload to the  *)
(* update endpoint with doc_update_policy 'update', and the error the      *)
(* remote API answers with reaches the caller with its status and payload. *)
(***************************************************************************)
C4_AppendIsStillAttempted ==
  (pc = "done" /\ op.name = "updatePaperDoc" /\ op.policy = JStr("update"))
  =>
  /\ Len(calls) = 1
  /\ calls[1].endpoint = "/files/paper/update"
  /\ Get(calls[1].arg, "doc_update_policy") = JStr("update")
  /\ HttpFail(resps[1]) =>
       /\ out.k = "throw"
       /\ out.e.status = JNum(resps[1].status)

(***************************************************************************)
(* C5 (as stated): no operation hands more than two calls to the           *)
(* transport.                                                              *)
(***************************************************************************)
C5_AtMostTwoCalls == Len(calls) <= 2

(***************************************************************************)
(* C5 (amended): no operation hands more than three calls to the           *)
(* transport; three are reached only by createPaperDoc's fallback (failed  *)
(* create, create at the root, move), every other operation stays within   *)
(* two.                                                                    *)
(***************************************************************************)
C5_AtMostThreeCalls ==
  /\ Len(calls) <= 3
  /\ Len(calls) = 3 => (IsCreate /\ calls[3].endpoint = "/files/move_v2")

C5_Witness ==
  /\ pc = "done"
  /\ IsCreate
  /\ Len(calls) = 3
  /\ Len(resps) = 3

(***************************************************************************)
(* Vocabulary of the error-message properties.  Answer i is the response   *)
(* to calls[i]; outs[i] is what the executor of that call made of it.      *)
(***************************************************************************)
Answers == 1..Len(outs)

\* The fields of an error body, "" when absent or not a string.
StringAt(v) == IF v.t = "string" THEN v.s ELSE ""
SummaryOf(data) == StringAt(Get(data, "error_summary"))
DescriptionOf(data) == StringAt(Get(data, "error_description"))
NestedMessageOf(data) == StringAt(Get(Get(data, "error"), "message"))

FallbackLiteral(site) ==
  CASE site = "request" -> "API request failed"
    [] site = "download" -> "Download failed"
    [] site = "upload" -> "Upload failed"

RECURSIVE FirstNonEmpty(_)
FirstNonEmpty(strings) ==
  IF Len(strings) = 1 \/ Head(strings) # "" THEN Head(strings)
  ELSE FirstNonEmpty(Tail(strings))

\* Answer i is a non-success response with a JSON object as its body.
FailedWithObject(i) ==
  /\ HttpFail(resps[i])
  /\ JSONParse(resps[i].text).ok
  /\ JSONParse(resps[i].text).v.t = "object"

\* Answer i is a non-success response whose body is not JSON.
FailedUnparseable(i) ==
  /\ HttpFail(resps[i])
  /\ ~JSONParse(resps[i].text).ok

(***************************************************************************)
(* C6: at each of the three call sites the message of the error raised on  *)
(* a non-success status is the first non-empty of error_summary,           *)
(* error_description, nested error.message, the raw body text and the call *)
(* site's fallback literal, in that order.                                 *)
(***************************************************************************)
C6_MessageFollowsTheChain ==
  \A i \in Answers :
    (FailedWithObject(i) \/ FailedUnparseable(i)) =>
      LET data == IF FailedWithObject(i) THEN JSONParse(resps[i].text).v
                  ELSE JObj(NoFields)
      IN /\ outs[i].k = "throw"
         /\ outs[i].e.message =
              FirstNonEmpty(<<SummaryOf(data), DescriptionOf(data),
                              NestedMessageOf(data), resps[i].text,
                              FallbackLiteral(calls[i].site)>>)

(***************************************************************************)
(* C7: for every non-success response whose JSON body has a non-empty      *)
(* error_summary, the raised error's message is that value, whatever other *)
(* fields are present, at request, downloadRequest and uploadRequest.      *)
(***************************************************************************)
C7_SummaryWins ==
  \A i \in Answers :
    (FailedWithObject(i) /\ SummaryOf(JSONParse(resps[i].text).v) # "") =>
      /\ outs[i].k = "throw"
      /\ outs[i].e.message = SummaryOf(JSONParse(resps[i].text).v)

\* request raised the summary of a body that also has a description and a
\* nested message.
C7_Witness ==
  /\ pc = "done"
  /\ Len(outs) = 1
  /\ calls[1].site = "request"
  /\ HttpFail(resps[1])
  /\ resps[1].text = TxtAll
  /\ out.k = "throw"
  /\ out.e.message = "S"

(***************************************************************************)
(* C8: for every non-success response whose JSON body has a nested         *)
(* error.message and no top-level error_summary or error_description, the  *)
(* raised error's message is the nested value, at request, downloadRequest *)
(* and uploadRequest alike.                                                *)
(***************************************************************************)
C8_NestedMessageWhenAlone ==
  \A i \in Answers :
    ( /\ FailedWithObject(i)
      /\ Get(JSONParse(resps[i].text).v, "error_summary") = Undef
      /\ Get(JSONParse(resps[i].text).v, "error_description") = Undef
      /\ NestedMessageOf(JSONParse(resps[i].text).v) # "" )
    =>
      /\ outs[i].k = "throw"
      /\ outs[i].e.message = NestedMessageOf(JSONParse(resps[i].text).v)

(***************************************************************************)
(* C9: for every non-success response whose body is not valid JSON, the    *)
(* raised error's message is the raw body text and its data is the wrapper *)
(* {error: rawText}, at request, downloadRequest and uploadRequest alike.  *)
(* (Stated for a body that has text: an empty body has no text to show and *)
(* gets the call site's literal.)                                          *)
(***************************************************************************)
C9_RawTextWhenUnparseable ==
  \A i \in Answers :
    (FailedUnparseable(i) /\ resps[i].text # "") =>
      /\ outs[i].k = "throw"
      /\ outs[i].e.message = resps[i].text
      /\ outs[i].e.data = JObj([error |-> JStr(resps[i].text)])

PayloadOf(i) ==
  IF JSONParse(resps[i].text).ok THEN JSONParse(resps[i].text).v
  ELSE JObj([error |-> JStr(resps[i].text)])

(***************************************************************************)
(* C11: for every non-success HTTP response and every body, JSON bodies    *)
(* that are not objects (null) included, request, downloadRequest and      *)
(* uploadRequest fail with an error whose status is the response's status  *)
(* and whose data is the parsed body, or {error: rawText} when the body    *)
(* does not parse.                                                         *)
(***************************************************************************)
C11_ErrorCarriesStatusAndData ==
  \A i \in Answers :
    HttpFail(resps[i]) =>
      /\ outs[i].k = "throw"
      /\ outs[i].e.status = JNum(resps[i].status)
      /\ outs[i].e.data = PayloadOf(i)

(***************************************************************************)
(* C12: on a success response request returns an empty object when the     *)
(* body is empty and the parsed JSON when the body is valid JSON; when the *)
(* body is not empty and not valid JSON it fails, returning no value, with *)
(* an error that carries the response status like the other API errors.    *)
(***************************************************************************)
C12_SuccessBodyParsedOrApiError ==
  \A i \in Answers :
    (calls[i].site = "request" /\ HttpOk(resps[i])) =>
      /\ resps[i].text = "" => outs[i] = Ret(JObj(NoFields))
      /\ JSONParse(resps[i].text).ok => outs[i] = Ret(JSONParse(resps[i].text).v)
      /\ (resps[i].text # "" /\ ~JSONParse(resps[i].text).ok) =>
           /\ outs[i].k = "throw"
           /\ outs[i].e.status = JNum(resps[i].status)

IsLink == op.name = "getSharedLink"

\* The links of a listing result v: its links array, or none.
ListedLinks(v) ==
  IF v.t = "object" /\ "links" \in DOMAIN v.o /\ v.o.links.t = "array"
    THEN v.o.links.a ELSE <<>>

ListCall(p) ==
  [site |-> "request", endpoint |-> "/sharing/list_shared_links",
   method |-> "POST", timeout |-> 30000,
   arg |-> JObj([path |-> p, direct_only |-> JTrue]), content |-> Undef]

LinkCall(p) ==
  [site |-> "request", endpoint |-> "/sharing/create_shared_link_with_settings",
   method |-> "POST", timeout |-> 30000,
   arg |-> JObj([path |-> p,
                 settings |-> JObj([requested_visibility |-> JStr("public")])]),
   content |-> Undef]

\* The listing call of getSharedLink came back with a value.
ListingReturned == IsLink /\ Len(outs) >= 1 /\ outs[1].k = "return"

(***************************************************************************)
(* C13: getSharedLink(path) first issues the listing call for direct-only  *)
(* links of the path; a listing with one or more links ends the operation  *)
(* with the first link, in the API's order, and no creation call; the      *)
(* creation call, with requested visibility public, is issued at most once *)
(* and only after a listing that came back without links; a listing object *)
(* or value without links is always followed by it.                        *)
(***************************************************************************)
C13_ListThenCreateOnlyWhenEmpty ==
  IsLink =>
    /\ calls[1] = ListCall(op.path)
    /\ Len(calls) <= 2
    /\ (ListingReturned /\ Len(ListedLinks(outs[1].v)) > 0) =>
         /\ Len(calls) = 1
         /\ pc = "done"
         /\ out = Ret(ListedLinks(outs[1].v)[1])
    /\ Len(calls) = 2 =>
         /\ ListingReturned
         /\ ListedLinks(outs[1].v) = <<>>
         /\ calls[2] = LinkCall(op.path)
    /\ (ListingReturned /\ ~Nullish(outs[1].v) /\ ListedLinks(outs[1].v) = <<>>) =>
         Len(calls) = 2

\* A listing of two links answered with the first of them, in one call.
C13_Witness ==
  /\ IsLink
  /\ pc = "done"
  /\ HttpOk(resps[1])
  /\ resps[1].text = TxtLinks
  /\ out = Ret(LinkA)
  /\ Len(calls) = 1

\* An empty listing followed by the one creation call.
C13_CreatedAfterEmptyListing ==
  /\ IsLink
  /\ pc = "done"
  /\ HttpOk(resps[1])
  /\ resps[1].text = TxtNoLinks
  /\ calls[2] = LinkCall(op.path)
  /\ out = Ret(LinkC)

\* What safeGet finds under error.shared_link_already_exists.metadata of the
\* body of r, undefined when the body does not embed it.
EmbeddedLink(r) ==
  IF r.kind = "http" /\ JSONParse(r.text).ok
    THEN Get(Get(Get(JSONParse(r.text).v, "error"), "shared_link_already_exists"),
             "metadata")
    ELSE Undef

\* getSharedLink's creation call failed with the discriminator.
CreationRefused ==
  /\ IsLink
  /\ Len(outs) = 2
  /\ CarriesTag(resps[2], "shared_link_already_exists")

(***************************************************************************)
(* C15 as stated: when the creation call of getSharedLink fails with the   *)
(* shared_link_already_exists discriminator, getSharedLink returns the     *)
(* link metadata instead of raising, for every payload carrying the        *)
(* discriminator.                                                          *)
(***************************************************************************)
C15_EveryTaggedPayloadReturns ==
  CreationRefused => out.k = "return"

(***************************************************************************)
(* C15 amended: when the creation call fails with the discriminator,       *)
(* getSharedLink returns the metadata embedded under                       *)
(* error.shared_link_already_exists.metadata when the payload embeds one,  *)
(* and re-raises the creation error when the payload embeds none.          *)
(***************************************************************************)
C15_ReturnsEmbeddedElseReraises ==
  CreationRefused =>
    /\ pc = "done"
    /\ IF Truthy(EmbeddedLink(resps[2]))
         THEN out = Ret(EmbeddedLink(resps[2]))
         ELSE out.k = "throw" /\ out = outs[2]

C15_Witness ==
  /\ CreationRefused
  /\ resps[2].text = TxtLinkExists
  /\ out = Ret(LinkA)

\* The failure of call i is one of the two the operations recover from.
Recovered(i) ==
  \/ IsCreate /\ i = 1 /\ CarriesTag(resps[1], "invalid_file_extension")
  \/ IsLink /\ i = 2 /\ CarriesTag(resps[2], "shared_link_already_exists")

(***************************************************************************)
(* C17: after any failed network call the operation issues no further call *)
(* and ends raising that error, unless it is createPaperDoc's first create *)
(* failing with invalid_file_extension or getSharedLink's creation call    *)
(* failing with shared_link_already_exists; a failure of getSharedLink's   *)
(* listing call in particular reaches the caller.                          *)
(***************************************************************************)
C17_FailuresPropagate ==
  \A i \in Answers :
    (outs[i].k = "throw" /\ ~Recovered(i)) =>
      /\ Len(calls) = i
      /\ pc = "done"
      /\ out = outs[i]

(***************************************************************************)
(* C18: every request handed to the authenticated transport, by request,   *)
(* downloadRequest and uploadRequest alike, uses method POST and carries   *)
(* the timeout of 30000 ms; none is issued without a timeout.              *)
(***************************************************************************)
C18_EveryCallIsPostWithTimeout ==
  \A i \in 1..Len(calls) :
    /\ calls[i].site \in {"request", "download", "upload"}
    /\ calls[i].method = "POST"
    /\ calls[i].timeout = 30000

\* The fallback chain of createPaperDoc: two upload calls and one RPC call.
C18_Witness ==
  /\ Len(calls) = 3
  /\ calls[1].site = "upload"
  /\ calls[3].site = "request"
  /\ \A i \in 1..3 : calls[i].timeout = 30000 /\ calls[i].method = "POST"

\* A download call in flight with the same method and timeout.
C18_DownloadCallSeen ==
  /\ Len(calls) = 1
  /\ calls[1].site = "download"
  /\ calls[1].timeout = 30000

(***************************************************************************)
(* The catch of main: what the command prints for the error e it caught    *)
(* (the JSON form; --summary prints the message alone).                    *)
(***************************************************************************)
errorOutput(e) ==
  [error |-> JStr(e.message), status |-> e.status, data |-> e.data]

\* The operation ended by raising an error the transport did not raise.
FailedAfterAnswer ==
  /\ pc = "done"
  /\ out.k = "throw"
  /\ out.e.name # "TransportError"

(***************************************************************************)
(* C19: every failure that reaches the command's caller carries a message, *)
(* the HTTP status and the raw payload, so the printed {error, status,     *)
(* data} has all three fields defined (failures of the transport itself,   *)
(* which have no HTTP response, are left aside here).                      *)
(***************************************************************************)
C19_EveryFailureFullyReported ==
  FailedAfterAnswer =>
    /\ errorOutput(out.e).error # JStr("")
    /\ errorOutput(out.e).status.t = "number"
    /\ errorOutput(out.e).data # Undef

\* The required parameter of the running operation, as it was passed.
RequiredParameter ==
  CASE op.name \in {"getMetadata", "downloadFile", "getPaperDocContent",
                    "createPaperDoc", "updatePaperDoc", "getSharedLink"} -> op.path
    [] op.name = "search" -> op.query
    [] op.name = "listFolderContinue" -> op.cursor
    [] OTHER -> JStr("not required")

(***************************************************************************)
(* C20: an operation whose required parameter is empty or undefined issues *)
(* no network call and ends with an error.                                 *)
(***************************************************************************)
C20_EmptyParameterIssuesNoCall ==
  RequiredParameter \in {Undef, JStr("")} =>
    /\ calls = <<>>
    /\ pc = "done"
    /\ out.k = "throw"

(***************************************************************************)
(* Command invocations running getSharedLink side by side against a remote *)
(* that keeps the links it makes, lists them as they are and refuses a     *)
(* second link for a path with shared_link_already_exists embedding the    *)
(* first.  Each action is one answer of the remote to one invocation,      *)
(* which runs on to its next call; a call or its answer may be lost.       *)
(***************************************************************************)
OldLink(p) == [path |-> p, age |-> "old"]
NewLink(p) == [path |-> p, age |-> "new"]

Answer200(text) == [kind |-> "http", ok |-> TRUE, status |-> 200, text |-> text]
Answer409(text) == [kind |-> "http", ok |-> FALSE, status |-> 409, text |-> text]
NoAnswer == [kind |-> "threw"]

InitRemote ==
  /\ pc = "idle"
  /\ op = NoOp
  /\ calls = <<>>
  /\ resps = <<>>
  /\ outs = <<>>
  /\ loc = NoLoc
  /\ out = None
  /\ runs = 0
  /\ \E held \in SUBSET LinkPaths :
       remote = [p \in LinkPaths |-> IF p \in held THEN <<OldLink(p)>> ELSE <<>>]
  /\ inv = [i \in Invocations |-> NotStarted]
  /\ docs = NoDocs
  /\ proc = NoProcess
  /\ twin = NoTwin

PathOf(i) == inv[i].path.s

ApplyTo(i, step) ==
  inv' = [inv EXCEPT ![i].pc = step.pc,
                     ![i].calls = @ \o step.send,
                     ![i].out = step.out]

StartInvocation(i) ==
  /\ inv[i].pc = "idle"
  /\ \E p \in LinkPaths :
       LET step == getSharedLink(JStr(p))
       IN inv' = [inv EXCEPT ![i] =
                    [pc |-> step.pc, path |-> JStr(p), calls |-> step.send,
                     out |-> step.out,
                     after |-> {j \in Invocations : inv[j].pc = "done"},
                     found |-> remote[p]]]
  /\ UNCHANGED <<client, remote, docs, proc, twin>>

\* The remote answers a listing call with the links it holds for the path.
RemoteLists(i) ==
  /\ inv[i].pc = "list"
  /\ LET held == remote[PathOf(i)]
         o == request(Answer200(IF held = <<>> THEN TxtNoLinks
                                ELSE TxtListing(held[1])))
     IN ApplyTo(i, getSharedLinkListed(o, inv[i].path))
  /\ UNCHANGED <<client, remote, docs, proc, twin>>

\* The remote makes the first link of the path and answers with it.
RemoteCreates(i) ==
  /\ inv[i].pc = "link"
  /\ remote[PathOf(i)] = <<>>
  /\ remote' = [remote EXCEPT ![PathOf(i)] = <<NewLink(PathOf(i))>>]
  /\ ApplyTo(i, getSharedLinkCreated(request(Answer200(TxtLink(NewLink(PathOf(i)))))))
  /\ UNCHANGED <<client, docs, proc, twin>>

\* The remote refuses a second link and embeds the one it holds.
RemoteRefuses(i) ==
  /\ inv[i].pc = "link"
  /\ remote[PathOf(i)] # <<>>
  /\ ApplyTo(i, getSharedLinkCreated(request(Answer409(TxtRefused(remote[PathOf(i)][1])))))
  /\ UNCHANGED <<client, remote, docs, proc, twin>>

\* The call never reaches the remote: the transport throws.
CallLost(i) ==
  /\ inv[i].pc \in {"list", "link"}
  /\ LET o == request(NoAnswer)
     IN ApplyTo(i, IF inv[i].pc = "list"
                     THEN getSharedLinkListed(o, inv[i].path)
                     ELSE getSharedLinkCreated(o))
  /\ UNCHANGED <<client, remote, docs, proc, twin>>

\* The remote makes the link but its answer never arrives.
AnswerLost(i) ==
  /\ inv[i].pc = "link"
  /\ remote[PathOf(i)] = <<>>
  /\ remote' = [remote EXCEPT ![PathOf(i)] = <<NewLink(PathOf(i))>>]
  /\ ApplyTo(i, getSharedLinkCreated(request(NoAnswer)))
  /\ UNCHANGED <<client, docs, proc, twin>>

NextRemote ==
  \E i \in Invocations :
    \/ StartInvocation(i)
    \/ RemoteLists(i)
    \/ RemoteCreates(i)
    \/ RemoteRefuses(i)
    \/ CallLost(i)
    \/ AnswerLost(i)

SpecRemote == InitRemote /\ [][NextRemote]_vars

Ended(i) == inv[i].pc = "done"
SamePath(i, j) == inv[i].path = inv[j].path
LostCall(i) == inv[i].out = Thr(TransportError)

\* Invocation j ran after invocation i for the same path, and has ended.
RanAfter(i, j) == i \in inv[j].after /\ Ended(j) /\ SamePath(i, j)

\* Invocations i and j for the same path overlapped, and both have ended.
Overlapped(i, j) ==
  /\ i # j
  /\ Ended(i) /\ Ended(j)
  /\ SamePath(i, j)
  /\ i \notin inv[j].after /\ j \notin inv[i].after

(***************************************************************************)
(* C14: against a remote that keeps created links, of two getSharedLink    *)
(* calls made one after the other for the same path each issues the        *)
(* listing call first, the later one issues no creation call when a link   *)
(* exists at its start, and, no call being lost in transport, both return  *)
(* the same link.                                                          *)
(***************************************************************************)
C14_SequentialCallsReturnTheSameLink ==
  \A i, j \in Invocations :
    RanAfter(i, j) =>
      /\ inv[i].calls[1] = ListCall(inv[i].path)
      /\ inv[j].calls[1] = ListCall(inv[j].path)
      /\ inv[j].found # <<>> => Len(inv[j].calls) = 1
      /\ (~LostCall(i) /\ ~LostCall(j)) =>
           /\ inv[i].out.k = "return"
           /\ inv[j].out = inv[i].out
           /\ Len(inv[j].calls) = 1

\* The first call lists nothing and creates the link; the second call lists
\* it and returns it.
C14_Witness ==
  \E i, j \in Invocations :
    /\ RanAfter(i, j)
    /\ inv[i].found = <<>>
    /\ Len(inv[i].calls) = 2
    /\ inv[i].out = Ret(LinkValue(NewLink(PathOf(i))))
    /\ Len(inv[j].calls) = 1
    /\ inv[j].out = inv[i].out

(***************************************************************************)
(* C16: under any interleaving of the invocations running getSharedLink    *)
(* for one path against the remote that refuses a second link, the remote  *)
(* never holds more than one link for the path, and every two invocations  *)
(* that ended without losing a call in transport returned that one link.   *)
(***************************************************************************)
C16_InterleavedCallsShareOneLink ==
  /\ \A p \in LinkPaths : Len(remote[p]) <= 1
  /\ \A i, j \in Invocations :
       (Ended(i) /\ Ended(j) /\ SamePath(i, j) /\ ~LostCall(i) /\ ~LostCall(j)) =>
         /\ remote[PathOf(i)] # <<>>
         /\ inv[i].out = Ret(LinkValue(remote[PathOf(i)][1]))
         /\ inv[j].out = inv[i].out

\* The race: both invocations list nothing and both ask for a link; one is
\* served, the other refused, and both return the link that was made.
C16_Witness ==
  \E i, j \in Invocations :
    /\ Overlapped(i, j)
    /\ Len(inv[i].calls) = 2
    /\ Len(inv[j].calls) = 2
    /\ inv[i].out = Ret(LinkValue(NewLink(PathOf(i))))
    /\ inv[j].out = inv[i].out

(***************************************************************************)
(* C22: uploadRequest parses the body whatever the status, taking          *)
(* {error: rawText} when it does not parse, and only then looks at the     *)
(* status: a non-success status raises an error carrying that data, a      *)
(* success status returns that data (the wrapper for an empty or non-JSON  *)
(* body).                                                                  *)
(***************************************************************************)
C22_UploadParsesThenBranches ==
  \A i \in Answers :
    (calls[i].site = "upload" /\ resps[i].kind = "http") =>
      IF resps[i].ok
        THEN outs[i] = Ret(PayloadOf(i))
        ELSE outs[i].k = "throw" /\ outs[i].e.data = PayloadOf(i)

(***************************************************************************)
(* C25: in createPaperDoc's fallback the move call is issued only after    *)
(* the root-level create has succeeded; its from_path is the path that     *)
(* create reported, or the temporary path when it reported none, its       *)
(* to_path the requested path, with allow_shared_folder true and           *)
(* autorename false; once the move has succeeded the result object that    *)
(* createPaperDoc returns carries as result_path the destination the move  *)
(* reported, whatever path the root-level create had reported.             *)
(***************************************************************************)
C25_MoveFollowsRootCreate ==
  (IsCreate /\ Len(calls) = 3) =>
    /\ CarriesTag(resps[1], "invalid_file_extension")
    /\ HttpOk(resps[2])
    /\ outs[2].k = "return"
    /\ calls[3] = MoveCall(ReportedByRootCreate, op.path)
    /\ (Len(outs) = 3 /\ out.k = "return" /\ out.v.t = "object") =>
         /\ outs[3].k = "return"
         /\ Get(out.v, "result_path") = ReportedByMove

\* The root-level create reported the temporary path, the move reported the
\* requested one, and the requested one is returned.
C25_Witness ==
  /\ IsCreate
  /\ pc = "done"
  /\ op.path = JStr(NestedPath)
  /\ Len(calls) = 3
  /\ resps[2].text = TxtResultRoot
  /\ calls[3] = MoveCall(JStr(RootPath), JStr(NestedPath))
  /\ HttpOk(resps[3])
  /\ resps[3].text = TxtMovedNested
  /\ out.k = "return"
  /\ out.v.t = "object"
  /\ Get(out.v, "result_path") = JStr(NestedPath)

(***************************************************************************)
(* createPaperDoc, then getPaperDocContent of the same path, against a     *)
(* remote that stores the uploaded bytes: it keeps the body of an accepted *)
(* create at the path of the call, may refuse a create in the shared       *)
(* folder with invalid_file_extension, moves a document when asked, and    *)
(* exports what it stores.  Any call may be refused or lost.               *)
(***************************************************************************)
MarkdownContents == Contents \cup {JStr(PaddedNotes)}

ResultText(p) == IF p = NestedPath THEN TxtResultNested ELSE TxtResultRoot
MovedText(p) == IF p = NestedPath THEN TxtMovedNested ELSE TxtMovedRoot

\* What the remote may answer without doing anything.
Refusals == {Answer409(TxtSummary), NoAnswer}

\* The answer r reaches the running operation, the remote's store becomes at.
DocsAnswered(r, o, step, at) ==
  /\ resps' = Append(resps, r)
  /\ outs' = Append(outs, o)
  /\ Advance(step)
  /\ docs' = [docs EXCEPT !.at = at]
  /\ UNCHANGED <<op, runs, remote, inv, proc, twin>>

InitDocs ==
  /\ pc = "idle"
  /\ op = NoOp
  /\ calls = <<>>
  /\ resps = <<>>
  /\ outs = <<>>
  /\ loc = NoLoc
  /\ out = None
  /\ runs = 0
  /\ remote = NoLinks
  /\ inv = [i \in Invocations |-> NotStarted]
  /\ docs = NoDocs
  /\ proc = NoProcess
  /\ twin = NoTwin

DocsCreate ==
  /\ pc = "idle"
  /\ \E p \in DocPaths, content \in MarkdownContents, importFormat \in {Undef, JStr("markdown")} :
       LET docPath == JStr(p)
       IN /\ op' = [name |-> "createPaperDoc", path |-> docPath,
                    content |-> content, format |-> importFormat]
          /\ Advance(createPaperDoc(docPath, content, importFormat))
  /\ UNCHANGED <<resps, outs, runs, remote, inv, docs, proc, twin>>

\* The remote stores the body of the create call at the path of the call.
Stored(call) == [docs.at EXCEPT ![call.arg.o.path.s] = call.content]

DocsCreateAnswered ==
  /\ pc = "create"
  /\ \/ LET r == Answer200(ResultText(calls[1].arg.o.path.s))
            o == uploadRequest(r)
        IN DocsAnswered(r, o, createPaperDocCatch(o, op.path, op.content, op.format),
                        Stored(calls[1]))
     \/ /\ calls[1].arg.o.path.s = NestedPath
        /\ LET r == Answer409(TxtBadExt)
               o == uploadRequest(r)
           IN DocsAnswered(r, o, createPaperDocCatch(o, op.path, op.content, op.format),
                           docs.at)
     \/ \E r \in Refusals :
          LET o == uploadRequest(r)
          IN DocsAnswered(r, o, createPaperDocCatch(o, op.path, op.content, op.format),
                          docs.at)

DocsRootAnswered ==
  /\ pc = "root"
  /\ \/ \E text \in {ResultText(calls[2].arg.o.path.s), TxtEmptyObj} :
          LET r == Answer200(text)
              o == uploadRequest(r)
          IN DocsAnswered(r, o, createPaperDocRoot(o, op.path, loc), Stored(calls[2]))
     \/ \E r \in Refusals :
          LET o == uploadRequest(r)
          IN DocsAnswered(r, o, createPaperDocRoot(o, op.path, loc), docs.at)

\* The remote moves the document of the move call to its destination.
Moved(call) ==
  LET from == call.arg.o.from_path.s
      to == call.arg.o.to_path.s
  IN [p \in DocPaths |-> IF p = to THEN docs.at[from]
                         ELSE IF p = from THEN Undef ELSE docs.at[p]]

DocsMoveAnswered ==
  /\ pc = "move"
  /\ \/ LET r == Answer200(MovedText(calls[3].arg.o.to_path.s))
            o == request(r)
        IN DocsAnswered(r, o, createPaperDocMoved(o, op.path, loc), Moved(calls[3]))
     \/ \E r \in Refusals :
          LET o == request(r)
          IN DocsAnswered(r, o, createPaperDocMoved(o, op.path, loc), docs.at)

\* createPaperDoc has ended; the same path is read back as markdown.
DocsRead ==
  /\ pc = "done"
  /\ op.name = "createPaperDoc"
  /\ \E exportFormat \in {Undef, JStr("markdown")} :
       /\ op' = [name |-> "getPaperDocContent", path |-> op.path]
       /\ pc' = "download"
       /\ calls' = <<getPaperDocContent(op.path, exportFormat)>>
  /\ resps' = <<>>
  /\ outs' = <<>>
  /\ loc' = NoLoc
  /\ out' = None
  /\ docs' = [docs EXCEPT !.made = [path |-> op.path, content |-> op.content,
                                    calls |-> calls, out |-> out]]
  /\ UNCHANGED <<runs, remote, inv, proc, twin>>

\* The remote exports the document it stores at the path, if any.
DocsReadAnswered ==
  /\ pc = "download"
  /\ \/ /\ docs.at[calls[1].arg.o.path.s] # Undef
        /\ LET r == Answer200(docs.at[calls[1].arg.o.path.s].s)
               o == downloadRequest(r)
           IN DocsAnswered(r, o, Finish(textOf(o)), docs.at)
     \/ /\ docs.at[calls[1].arg.o.path.s] = Undef
        /\ LET r == Answer409(TxtSummary)
               o == downloadRequest(r)
           IN DocsAnswered(r, o, Finish(textOf(o)), docs.at)
     \/ LET o == downloadRequest(NoAnswer)
        IN DocsAnswered(NoAnswer, o, Finish(textOf(o)), docs.at)

NextDocs ==
  \/ DocsCreate
  \/ DocsCreateAnswered
  \/ DocsRootAnswered
  \/ DocsMoveAnswered
  \/ DocsRead
  \/ DocsReadAnswered

SpecDocs == InitDocs /\ [][NextDocs]_vars

IsRead == op.name = "getPaperDocContent"

\* createPaperDoc returned, and the read of the same path has ended.
ReadBackAfterCreate == IsRead /\ pc = "done" /\ docs.made.out.k = "return"

(***************************************************************************)
(* C23: round trip.  Against a remote that stores the uploaded bytes,      *)
(* every create attempt of createPaperDoc(path, C, 'markdown') carries C   *)
(* unmodified as its body; once createPaperDoc has returned, directly or   *)
(* through the create-at-root fallback, the remote holds C at the path;    *)
(* getPaperDocContent returns the export body unmodified, so that reading  *)
(* the path back yields exactly C.                                         *)
(***************************************************************************)
C23_ReadBackYieldsTheContent ==
  /\ IsCreate =>
       \A i \in 1..Len(calls) :
         calls[i].endpoint = "/files/paper/create" => calls[i].content = op.content
  /\ (IsCreate /\ pc = "done" /\ out.k = "return") =>
       docs.at[op.path.s] = op.content
  /\ (IsRead /\ pc = "done" /\ HttpOk(resps[1])) => out = Ret(JStr(resps[1].text))
  /\ (ReadBackAfterCreate /\ resps[1] # NoAnswer) => out = Ret(docs.made.content)

\* Content with white space around it, created through the fallback and the
\* move, comes back as it was.
C23_Witness ==
  /\ ReadBackAfterCreate
  /\ Len(docs.made.calls) = 3
  /\ docs.made.content = JStr(PaddedNotes)
  /\ out = Ret(JStr(PaddedNotes))

\* The move call of the fallback failed.
MoveFailed == IsCreate /\ Len(outs) = 3 /\ outs[3].k = "throw"

(***************************************************************************)
(* C27: when the fallback of createPaperDoc has created the document at    *)
(* the temporary root-level path and the move call then fails,             *)
(* createPaperDoc raises the move error and issues no further call: no     *)
(* cleanup, no compensation.  The document stays where the root-level      *)
(* create put it and the requested path holds no document.                 *)
(***************************************************************************)
C27_FailedMoveLeavesTheDocumentAtTheRoot ==
  MoveFailed =>
    /\ pc = "done"
    /\ Len(calls) = 3
    /\ out = outs[3]
    /\ docs.at[calls[3].arg.o.from_path.s] = op.content
    /\ docs.at[op.path.s] = Undef

\* The remote refuses the move of /doc.paper into the shared folder.
C27_Witness ==
  /\ MoveFailed
  /\ resps[3] = Answer409(TxtSummary)
  /\ op.path = JStr(NestedPath)
  /\ docs.at[RootPath] = op.content
  /\ out.k = "throw"
  /\ out.e.status = JNum(409)

(***************************************************************************)
(* The simplified copy of the module (second half of the source).  Its     *)
(* executors and its other operations are the same text as the richer      *)
(* copy's; createPaperDoc and updatePaperDoc are one upload call each.      *)
(***************************************************************************)
createPaperDocSimplified(docPath, content, importFormat) ==
  Issue("created",
        uploadOptions("/files/paper/create",
                      JObj([path |-> docPath,
                            import_format |-> Or(importFormat, JStr("markdown"))]),
                      content),
        NoLoc)

updatePaperDocSimplified(docPath, content, importFormat, updatePolicy) ==
  Issue("update",
        uploadOptions("/files/paper/update",
                      JObj([path |-> docPath,
                            import_format |-> Or(importFormat, JStr("markdown")),
                            doc_update_policy |-> Or(updatePolicy, JStr("overwrite"))]),
                      content),
        NoLoc)

\* The calls a test makes on a client, with their arguments.
Operations ==
  [name : {"createPaperDoc"}, path : PathArgs, content : Contents, format : Formats]
    \cup [name : {"updatePaperDoc"}, path : PathArgs, content : Contents,
          format : Formats, policy : Policies]
    \cup [name : {"getSharedLink", "getMetadata", "downloadFile",
                  "getPaperDocContent", "listFolder", "listPaperDocs"},
          path : PathArgs]
    \cup [name : {"search", "searchPaperDocs"}, query : Queries]
    \cup [name : {"listFolderContinue"}, cursor : Cursors]
    \cup [name : {"getCurrentAccount"}]

\* The operation o up to its first call, in the copy named.
Enter(copy, o) ==
  CASE o.name = "createPaperDoc" ->
         IF copy = "richer" THEN createPaperDoc(o.path, o.content, o.format)
         ELSE createPaperDocSimplified(o.path, o.content, o.format)
    [] o.name = "updatePaperDoc" ->
         IF copy = "richer" THEN updatePaperDoc(o.path, o.content, o.format, o.policy)
         ELSE updatePaperDocSimplified(o.path, o.content, o.format, o.policy)
    [] o.name = "getSharedLink" -> getSharedLink(o.path)
    [] o.name = "getMetadata" -> Issue("rpc", getMetadata(o.path), NoLoc)
    [] o.name = "downloadFile" -> Issue("download", downloadFile(o.path), NoLoc)
    [] o.name = "getPaperDocContent" ->
         Issue("download", getPaperDocContent(o.path, Undef), NoLoc)
    [] o.name = "listFolder" -> Issue("rpc", listFolder(o.path, Undef), NoLoc)
    [] o.name = "listPaperDocs" -> Issue("rpc", listPaperDocs(o.path), NoLoc)
    [] o.name = "search" -> Issue("rpc", search(o.query, Undef), NoLoc)
    [] o.name = "searchPaperDocs" -> Issue("rpc", searchPaperDocs(o.query, Undef), NoLoc)
    [] o.name = "listFolderContinue" -> Issue("rpc", listFolderContinue(o.cursor), NoLoc)
    [] o.name = "getCurrentAccount" -> Issue("rpc", getCurrentAccount, NoLoc)

\* What the executor makes of the answer r at position at of operation o, and
\* how the operation goes on from there.
Resume(at, o, l, r) ==
  CASE at = "create" ->
         [o |-> uploadRequest(r),
          step |-> createPaperDocCatch(uploadRequest(r), o.path, o.content, o.format)]
    [] at = "root" ->
         [o |-> uploadRequest(r), step |-> createPaperDocRoot(uploadRequest(r), o.path, l)]
    [] at = "move" ->
         [o |-> request(r), step |-> createPaperDocMoved(request(r), o.path, l)]
    [] at \in {"created", "update"} ->
         [o |-> uploadRequest(r), step |-> Finish(uploadRequest(r))]
    [] at = "list" ->
         [o |-> request(r), step |-> getSharedLinkListed(request(r), o.path)]
    [] at = "link" -> [o |-> request(r), step |-> getSharedLinkCreated(request(r))]
    [] at = "rpc" -> [o |-> request(r), step |-> Finish(request(r))]
    [] at = "download" ->
         [o |-> downloadRequest(r), step |-> Finish(textOf(downloadRequest(r)))]

Waiting(at) == at \notin {"idle", "done"}

InitCopies == InitDocs

\* The same call is made on a client of each copy.
CopiesCall ==
  /\ pc = "idle"
  /\ twin.pc = "idle"
  /\ \E o \in Operations :
       /\ op' = o
       /\ Advance(Enter("richer", o))
       /\ twin' = [pc |-> Enter("simplified", o).pc,
                   calls |-> Enter("simplified", o).send,
                   out |-> Enter("simplified", o).out]
  /\ UNCHANGED <<resps, outs, runs, remote, inv, docs, proc>>

\* The transport answers the pending request of each copy in the same way.
CopiesAnswered ==
  /\ Waiting(pc) \/ Waiting(twin.pc)
  /\ \E r \in Responses :
       /\ IF Waiting(pc)
            THEN /\ resps' = Append(resps, r)
                 /\ outs' = Append(outs, Resume(pc, op, loc, r).o)
                 /\ Advance(Resume(pc, op, loc, r).step)
            ELSE UNCHANGED <<pc, calls, resps, outs, loc, out>>
       /\ IF Waiting(twin.pc)
            THEN twin' = [pc |-> Resume(twin.pc, op, NoLoc, r).step.pc,
                          calls |-> twin.calls \o Resume(twin.pc, op, NoLoc, r).step.send,
                          out |-> Resume(twin.pc, op, NoLoc, r).step.out]
            ELSE UNCHANGED twin
  /\ UNCHANGED <<op, runs, remote, inv, docs, proc>>

NextCopies ==
  \/ CopiesCall
  \/ CopiesAnswered

SpecCopies == InitCopies /\ [][NextCopies]_vars

\* Both copies have ended the operation.
BothEnded == pc = "done" /\ twin.pc = "done"

\* The richer copy's createPaperDoc took its fallback.
TookFallback ==
  IsCreate /\ Len(resps) >= 1 /\ CarriesTag(resps[1], "invalid_file_extension")

(***************************************************************************)
(* C26: for every operation and every behaviour of the transport the two   *)
(* copies of the module issue the same requests and end with the same      *)
(* result or error, except when the richer copy's createPaperDoc takes the *)
(* fallback on invalid_file_extension; updatePaperDoc in particular        *)
(* behaves the same in both copies, update policy 'update' included.       *)
(***************************************************************************)
C26_CopiesBehaveAlike ==
  (BothEnded /\ ~TookFallback) =>
    /\ twin.calls = calls
    /\ twin.out = out

\* The copies do behave alike for everything but updatePaperDoc with the
\* policy 'update'.
C26_AlikeButForAppend ==
  (BothEnded /\ ~TookFallback
     /\ ~(op.name = "updatePaperDoc" /\ op.policy = JStr("update"))) =>
    /\ twin.calls = calls
    /\ twin.out = out

(***************************************************************************)
(* The command line.  An argument is a word (its first character is not a  *)
(* dash), a long option --key or a short option -key.                      *)
(***************************************************************************)
Word(w) == [kind |-> "word", text |-> w]
Long(key) == [kind |-> "long", key |-> key]
Short(key) == [kind |-> "short", key |-> key]

\* parseArgs from argument i on: an option takes the next argument as its
\* value when that is a word, and is true otherwise; the first word that is
\* not taken is the command, the later ones are positional.
RECURSIVE parseFrom(_, _, _)
parseFrom(args, i, parsed) ==
  IF i > Len(args) THEN parsed
  ELSE IF args[i].kind \in {"long", "short"}
    THEN IF i + 1 <= Len(args) /\ args[i + 1].kind = "word"
           THEN parseFrom(args, i + 2,
                  [parsed EXCEPT !.options =
                     Set(@, args[i].key, JStr(args[i + 1].text))])
           ELSE parseFrom(args, i + 1,
                  [parsed EXCEPT !.options = Set(@, args[i].key, JTrue)])
    ELSE IF parsed.command = JNull
      THEN parseFrom(args, i + 1, [parsed EXCEPT !.command = JStr(args[i].text)])
      ELSE parseFrom(args, i + 1,
                     [parsed EXCEPT !.positional = Append(@, JStr(args[i].text))])

parseArgs(args) ==
  parseFrom(args, 1, [command |-> JNull, positional |-> <<>>,
                      options |-> JObj(NoFields)])

\* parsed.positional[0]
positional0(parsed) ==
  IF Len(parsed.positional) > 0 THEN parsed.positional[1] ELSE Undef

\* parsed.options[key]
option(parsed, key) == Get(parsed.options, key)

\* The command lines explored: options, then the command and its argument
\* or less, then options.
CommandWords ==
  { "account", "ls", "search", "paper", "paper-search", "read", "paper-create",
    "paper-update", "info", "link", "download", "help", "frobnicate" }

ArgumentWords == {NestedPath, EmptyPath}

WordLists ==
  {<<>>} \cup {<<Word(c)>> : c \in CommandWords}
    \cup {<<Word(c), Word(a)>> : c \in CommandWords, a \in ArgumentWords}

LeadingOptions == {<<>>, <<Long("summary")>>, <<Long("help")>>}

TrailingOptions ==
  { <<>>, <<Long("summary")>>, <<Long("help")>>, <<Short("h")>>,
    <<Long("content"), Word("# Notes")>>, <<Short("c")>>,
    <<Long("input"), Word("notes.md")>>, <<Long("stdin")>>,
    <<Long("content"), Word("# Notes"), Long("policy"), Word("update")>> }

CommandLines ==
  {pre \o words \o post :
     pre \in LeadingOptions, words \in WordLists, post \in TrailingOptions}

\* What the process finds outside its command line: the input file and the
\* standard input, each with its content or unreadable.
Unreadable == [t |-> "unreadable"]
Surroundings ==
  [file : {JStr("# Notes"), Unreadable},
   stdin : {JStr(PaddedNotes), JStr(""), Unreadable}]

(***************************************************************************)
(* main: the help path, then one command.  A command either ends the       *)
(* process at once (process.exit(1), or an exception caught at the end of  *)
(* main) or calls one client operation.                                    *)
(***************************************************************************)
ExitNow(code) == [kind |-> "exit", code |-> code]
Run(o, step) == [kind |-> "call", op |-> o, step |-> step]

\* !parsed.command || parsed.command === 'help' || options.help || options.h
wantsHelp(parsed) ==
  \/ ~Truthy(parsed.command)
  \/ parsed.command = JStr("help")
  \/ Truthy(option(parsed, "help"))
  \/ Truthy(option(parsed, "h"))

\* isMissing that lets every argument through.
isMissing_Never(v) == FALSE

\* if (!searchQuery), if (!readPath), ...
isMissing(v) == ~Truthy(v)

\* parseInt(v, 10) || fallback; no command line explored carries a number,
\* and NaN is as false as 0.
parseIntOr(v, fallback) ==
  Or(IF v = JStr("5") THEN JNum(5) ELSE JNum(0), JNum(fallback))

\* ls following the cursor of the listing.
lsCommand_FollowsCursor(parsed) ==
  Run([name |-> "listFolderContinue", cursor |-> JStr("cursor-1")],
      Issue("rpc", listFolderContinue(JStr("cursor-1")), NoLoc))

lsCommand(parsed) ==
  LET folderPath == Or(positional0(parsed), JStr(""))
      lsOptions ==
        JObj([recursive |-> Or(Or(option(parsed, "recursive"), option(parsed, "r")),
                               JFalse),
              limit |-> parseIntOr(Or(option(parsed, "limit"), option(parsed, "n")),
                                   100)])
  IN Run([name |-> "listFolder", path |-> folderPath],
         Issue("rpc", listFolder(folderPath, lsOptions), NoLoc))

searchCommand(parsed) ==
  LET searchQuery == positional0(parsed)
      base == JObj([maxResults |->
                parseIntOr(Or(option(parsed, "max"), option(parsed, "n")), 20)])
      path == Or(option(parsed, "path"), option(parsed, "p"))
      withPath == IF Truthy(path) THEN Set(base, "path", path) ELSE base
      extValue == Or(option(parsed, "ext"), option(parsed, "e"))
      searchOptions ==
        IF Truthy(extValue)
          THEN Set(withPath, "fileExtensions", JArr(<<extValue>>))  \* no comma in it
          ELSE withPath
  IN IF isMissing(searchQuery) THEN ExitNow(1)
     ELSE IF Truthy(extValue) /\ extValue.t # "string"
       THEN ExitNow(1)                        \* true.split is not a function
       ELSE Run([name |-> "search", query |-> searchQuery],
                Issue("rpc", search(searchQuery, searchOptions), NoLoc))

paperCommand(parsed) ==
  LET paperFolder == Or(positional0(parsed), JStr(""))
  IN Run([name |-> "listPaperDocs", path |-> paperFolder],
         Issue("rpc", listPaperDocs(paperFolder), NoLoc))

paperSearchCommand(parsed) ==
  LET paperQuery == positional0(parsed)
      paperSearchOptions ==
        JObj([maxResults |->
                parseIntOr(Or(option(parsed, "max"), option(parsed, "n")), 20)])
  IN IF isMissing(paperQuery) THEN ExitNow(1)
     ELSE Run([name |-> "searchPaperDocs", query |-> paperQuery],
              Issue("rpc", searchPaperDocs(paperQuery, paperSearchOptions), NoLoc))

readCommand(parsed) ==
  LET readPath == positional0(parsed)
      readFormat == Or(Or(option(parsed, "format"), option(parsed, "f")),
                       JStr("markdown"))
  IN IF isMissing(readPath) THEN ExitNow(1)
     ELSE Run([name |-> "getPaperDocContent", path |-> readPath],
              Issue("download", getPaperDocContent(readPath, readFormat), NoLoc))

\* The content of paper-create and paper-update: from the input file, else
\* from the standard input (trimmed, and not empty), else from the option.
NoContent == [ok |-> FALSE]
Content(v) == [ok |-> TRUE, v |-> v]

readContent(parsed, around) ==
  LET inputFile == Or(option(parsed, "input"), option(parsed, "i"))
      inline == Or(option(parsed, "content"), option(parsed, "c"))
  IN IF Truthy(inputFile)
       THEN IF inputFile.t = "string" /\ around.file # Unreadable
              THEN Content(around.file)
              ELSE NoContent                          \* readFileSync throws
     ELSE IF Truthy(option(parsed, "stdin"))
       THEN IF around.stdin = Unreadable THEN NoContent
            ELSE IF ~Truthy(JStr(trim(around.stdin.s))) THEN NoContent
            ELSE Content(JStr(trim(around.stdin.s)))
     ELSE IF Truthy(inline) THEN Content(inline)
     ELSE NoContent

paperCreateCommand(parsed, around) ==
  LET createPath == positional0(parsed)
      createContent == readContent(parsed, around)
      createFormat == Or(Or(option(parsed, "format"), option(parsed, "f")),
                         JStr("markdown"))
  IN IF isMissing(createPath) THEN ExitNow(1)
     ELSE IF ~createContent.ok THEN ExitNow(1)
     ELSE Run([name |-> "createPaperDoc", path |-> createPath,
               content |-> createContent.v, format |-> createFormat],
              createPaperDoc(createPath, createContent.v, createFormat))

paperUpdateCommand(parsed, around) ==
  LET updatePath == positional0(parsed)
      updateContent == readContent(parsed, around)
      updateFormat == Or(Or(option(parsed, "format"), option(parsed, "f")),
                         JStr("markdown"))
      updatePolicy == Or(option(parsed, "policy"), JStr("overwrite"))
  IN IF isMissing(updatePath) THEN ExitNow(1)
     ELSE IF ~updateContent.ok THEN ExitNow(1)
     ELSE Run([name |-> "updatePaperDoc", path |-> updatePath,
               content |-> updateContent.v, format |-> updateFormat,
               policy |-> updatePolicy],
              updatePaperDoc(updatePath, updateContent.v, updateFormat, updatePolicy))

infoCommand(parsed) ==
  LET infoPath == positional0(parsed)
  IN IF isMissing(infoPath) THEN ExitNow(1)
     ELSE Run([name |-> "getMetadata", path |-> infoPath],
              Issue("rpc", getMetadata(infoPath), NoLoc))

linkCommand(parsed) ==
  LET linkPath == positional0(parsed)
  IN IF isMissing(linkPath) THEN ExitNow(1)
     ELSE Run([name |-> "getSharedLink", path |-> linkPath], getSharedLink(linkPath))

downloadCommand(parsed) ==
  LET downloadPath == positional0(parsed)
  IN IF isMissing(downloadPath) THEN ExitNow(1)
     ELSE Run([name |-> "downloadFile", path |-> downloadPath],
              Issue("download", downloadFile(downloadPath), NoLoc))

\* main up to the client call of the command, or to the end of the process.
main(parsed, around) ==
  IF wantsHelp(parsed) THEN ExitNow(0)           \* printHelp(); return
  ELSE CASE parsed.command = JStr("account") ->
              Run([name |-> "getCurrentAccount"],
                  Issue("rpc", getCurrentAccount, NoLoc))
         [] parsed.command = JStr("ls") -> lsCommand(parsed)
         [] parsed.command = JStr("search") -> searchCommand(parsed)
         [] parsed.command = JStr("paper") -> paperCommand(parsed)
         [] parsed.command = JStr("paper-search") -> paperSearchCommand(parsed)
         [] parsed.command = JStr("read") -> readCommand(parsed)
         [] parsed.command = JStr("paper-create") -> paperCreateCommand(parsed, around)
         [] parsed.command = JStr("paper-update") -> paperUpdateCommand(parsed, around)
         [] parsed.command = JStr("info") -> infoCommand(parsed)
         [] parsed.command = JStr("link") -> linkCommand(parsed)
         [] parsed.command = JStr("download") -> downloadCommand(parsed)
         [] OTHER -> ExitNow(1)                  \* Unknown command

\* Printing the result reads a property of it: result.url for link, and the
\* fields of the summary for the commands that have one.
outputThrows(parsed, result) ==
  /\ Nullish(result)
  /\ \/ parsed.command = JStr("link")
     \/ /\ Truthy(option(parsed, "summary"))
        /\ parsed.command \notin {JStr("read"), JStr("download")}

\* The exit code once the client operation has ended with o.
exitCode(parsed, o) ==
  IF o.k = "throw" THEN 1                        \* catch: process.exit(1)
  ELSE IF outputThrows(parsed, o.v) THEN 1
  ELSE 0

InitMain == InitDocs

MainStart ==
  /\ proc.state = "none"
  /\ pc = "idle"
  /\ \E args \in CommandLines, around \in Surroundings :
       LET m == main(parseArgs(args), around)
       IN IF m.kind = "exit"
            THEN /\ proc' = [state |-> "exited", args |-> args, code |-> m.code]
                 /\ UNCHANGED client
            ELSE /\ proc' = [state |-> "running", args |-> args]
                 /\ op' = m.op
                 /\ Advance(m.step)
                 /\ UNCHANGED <<resps, outs, runs>>
  /\ UNCHANGED <<remote, inv, docs, twin>>

MainEnds ==
  /\ proc.state = "running"
  /\ pc = "done"
  /\ proc' = [state |-> "exited", args |-> proc.args,
              code |-> exitCode(parseArgs(proc.args), out)]
  /\ UNCHANGED <<client, remote, inv, docs, twin>>

NextMain ==
  \/ MainStart
  \/ CreateAnswered
  \/ RootCreateAnswered
  \/ MoveAnswered
  \/ UpdateAnswered
  \/ ListAnswered
  \/ LinkAnswered
  \/ RpcAnswered
  \/ DownloadAnswered
  \/ MainEnds

SpecMain == InitMain /\ [][NextMain]_vars

Exited == proc.state = "exited"

\* The command line of the process, parsed.
Given == parseArgs(proc.args)

\* The help path: no command, 'help', --help or -h.
HelpAsked ==
  \/ Given.command \in {JNull, JStr(""), JStr("help")}
  \/ option(Given, "help") \notin {Undef, JStr("")}
  \/ option(Given, "h") \notin {Undef, JStr("")}

KnownCommands ==
  { JStr("account"), JStr("ls"), JStr("search"), JStr("paper"),
    JStr("paper-search"), JStr("read"), JStr("paper-create"),
    JStr("paper-update"), JStr("info"), JStr("link"), JStr("download") }

NeedArgument ==
  { JStr("search"), JStr("paper-search"), JStr("read"), JStr("paper-create"),
    JStr("paper-update"), JStr("info"), JStr("link"), JStr("download") }

NeedContent == {JStr("paper-create"), JStr("paper-update")}

\* The required positional argument is absent (or the empty word).
ArgumentAbsent ==
  Given.command \in NeedArgument /\ positional0(Given) \in {Undef, JStr("")}

\* No content source is named: --input, -i, --stdin, --content, -c.
SourceAbsent ==
  /\ Given.command \in NeedContent
  /\ \A k \in {"input", "i", "stdin", "content", "c"} :
       option(Given, k) \in {Undef, JStr("")}

\* The command line is in error: unknown command, argument or content absent.
UsageError ==
  /\ ~HelpAsked
  /\ Given.command \notin KnownCommands \/ ArgumentAbsent \/ SourceAbsent

\* Some API call failed that the operation is not to recover from.
CallFailed == \E i \in Answers : outs[i].k = "throw" /\ ~Recovered(i)

(***************************************************************************)
(* C21: a command invocation ends with exit code 1 whenever an error       *)
(* occurred (a failed API call, an unknown command, a missing required     *)
(* argument, missing content, any error that reaches main) and with exit   *)
(* code 0 otherwise: on the help path and for every command that           *)
(* completed.                                                              *)
(***************************************************************************)
C21_ExitCodeTellsErrors ==
  Exited =>
    /\ HelpAsked => proc.code = 0
    /\ UsageError => proc.code = 1
    /\ CallFailed => proc.code = 1
    /\ (pc = "done" /\ out.k = "throw") => proc.code = 1
    /\ (pc = "done" /\ out.k = "return" /\ ~Nullish(out.v) /\ ~CallFailed) =>
         proc.code = 0

\* The exit code does tell every error but the failed listing call that
\* getSharedLink takes for a refused creation.
C21_ExitCodeButForTheListing ==
  (Exited /\ ~(IsLink /\ Len(outs) = 1 /\ outs[1].k = "throw" /\ out.k = "return")) =>
    /\ HelpAsked => proc.code = 0
    /\ UsageError => proc.code = 1
    /\ CallFailed => proc.code = 1
    /\ (pc = "done" /\ out.k = "throw") => proc.code = 1
    /\ (pc = "done" /\ out.k = "return" /\ ~Nullish(out.v) /\ ~CallFailed) =>
         proc.code = 0

Paginated == {JStr("ls"), JStr("search"), JStr("paper"), JStr("paper-search")}

(***************************************************************************)
(* C24: no command loops over pagination.  ls, search, paper and           *)
(* paper-search, given what they require, end after exactly one network    *)
(* call, also when the response reports has_more; and no command ever      *)
(* issues a list_folder/continue call.                                     *)
(***************************************************************************)
C24_OnePageForEveryCommand ==
  /\ \A i \in 1..Len(calls) : calls[i].endpoint # "/files/list_folder/continue"
  /\ (Exited /\ Given.command \in Paginated /\ ~HelpAsked /\ ~UsageError) =>
       /\ Len(calls) = 1
       /\ Len(resps) = 1
       /\ pc = "done"

\* ls is told there is more, and ends at that.
C24_Witness ==
  /\ Exited
  /\ Given.command = JStr("ls")
  /\ Len(calls) = 1
  /\ calls[1].endpoint = "/files/list_folder"
  /\ HttpOk(resps[1])
  /\ resps[1].text = TxtMore
  /\ proc.code = 0

(***************************************************************************)
(* C28: invoked without the required positional argument (search,          *)
(* paper-search, read, paper-create, paper-update, info, link, download),  *)
(* without any content source (paper-create, paper-update), with an        *)
(* unknown command, or on the help path, the invocation ends without       *)
(* having issued any network call.                                         *)
(***************************************************************************)
C28_NoCallWithoutWhatIsRequired ==
  (proc.state # "none" /\ (HelpAsked \/ UsageError)) =>
    /\ Exited
    /\ calls = <<>>
    /\ pc = "idle"

\* link without a path: exit code 1 and no call.
C28_Witness ==
  /\ Exited
  /\ Given.command = JStr("link")
  /\ Given.positional = <<>>
  /\ proc.code = 1
  /\ calls = <<>>

====
